---- MODULE Spec2Model ----
(***************************************************************************)
(* A model of the orchestration core of oraculo: the dependency-level      *)
(* scheduler (buildExecutionLevels), the level-by-level synthesis loop,    *)
(* the TrustGate cache and policy, and the Verifier.                       *)
(*                                                                         *)
(* Step ids are modelled as integers.  A plan of n steps has the ids 1..n  *)
(* in list order (ids are unique and the scheduler never inspects an id    *)
(* beyond equality, so every plan with unique ids is a renaming of one of  *)
(* these); the id n+1 names no step and stands for a dangling reference.   *)
(***************************************************************************)
EXTENDS Integers, Sequences, FiniteSets, TLC

VARIABLES
    \* ---- buildExecutionLevels (synthesizer.ts 184-220)
    steps,          \* the argument: the plan's step list
    levels,         \* const levels: PlanStep[][]
    completed,      \* const completed = new Set<string>()
    remaining,      \* let remaining = [...steps]
    fallback,       \* TRUE once the "no progress" branch (206-209) was taken
    schedPc,        \* "entry" | "while" | "done"
    \* ---- SessionMemory (memory.ts) and the clock read by Date.now()
    now,            \* Date.now(), in milliseconds
    trustCache,     \* memory.trustCache: key -> [assessment, expiresAt]
    \* ---- TrustGate.assessWallet (trust-gate.ts 28-61)
    calls,          \* every assessWallet call so far, in the order issued
    \* ---- Synthesizer.synthesize / executeStep (synthesizer.ts 37-94)
    synthPc,        \* "idle" | "levels" | "launch" | "await" | "aggregate" |
                    \* "done" | "raised_in_loop" | "raised_in_aggregate"
    levelIdx,       \* the index of the level the for loop is at
    stepRun,        \* step id -> the state of its executeStep promise
    stepResults,    \* const stepResults = new Map<string, StepResult>()
    dispatched,     \* step id -> how often its tool or handler was invoked
    aggregatedContext,  \* the text aggregate() returned
    \* ---- Verifier.verify (verifier.ts 30-92)
    verifyPc,       \* where the verify call is
    originWallet,   \* the argument originWallet: null or a text
    pending,        \* the (step, wallet) pairs the loops have still to assess
    stepVerifications,  \* const stepVerifications = new Map(), in insertion order
    verifyResult,   \* the VerificationResult returned, if any
    reasonerCalls,  \* how often generateCaveats called the Reasoner
    caveatReply,    \* what the Reasoner answered the caveat request with, if it did
    \* ---- OraculoAgent.run (agent.ts 64-133)
    agentPc,        \* where the run call is
    iterations,     \* let iterations
    messages,       \* memory.messages
    messagesBefore, \* memory.messages when run was called
    runOutput,      \* the AgentOutput run returned, if any
    phases,         \* the phases the turn has entered, in order
    planReply,      \* what the Reasoner answered the last Planning call with
    rounds,         \* per iteration: the plan and step results verify was given,
                    \* its assessWallet calls and what it returned
    \* ---- TrustGate.getSovereignScores (trust-gate.ts 64-92)
    sovereignCache, \* memory.sovereignCache
    lookups,        \* the getSovereignScores calls so far, in the order issued
    \* ---- direct reads of the two caches (getCachedTrust, getCachedSovereign)
    lastRead        \* the last such read: what was read, when, and what came back

schedVars == <<steps, levels, completed, remaining, fallback, schedPc>>
memVars == <<now, trustCache>>
gateVars == <<calls>>
synthVars == <<synthPc, levelIdx, stepRun, stepResults, dispatched, aggregatedContext>>
verifyVars == <<verifyPc, originWallet, pending, stepVerifications, verifyResult,
                reasonerCalls, caveatReply>>

agentVars ==
    <<agentPc, iterations, messages, messagesBefore, runOutput, phases, planReply,
      rounds>>

sovVars == <<sovereignCache, lookups>>

readVars == <<lastRead>>

vars ==
    <<schedVars, memVars, gateVars, synthVars, verifyVars, agentVars, sovVars, readVars>>

-----------------------------------------------------------------------------
(* Bounds of the model *)

\* the longest step list the scheduler is given
MaxSteps == 3
\* the most dependsOn entries of one plan, all steps together
MaxEdges == 3
\* the most clock advances of a run
MaxTicks == 2
\* the most assessWallet calls a client of TrustGate issues in a run
MaxCalls == 2
\* the longest plan handed to synthesize
MaxSynthSteps == 3
\* the most dependsOn entries of a plan handed to synthesize
MaxSynthEdges == 1
\* the longest plan handed to verify
MaxVerifySteps == 2
\* config.maxIterations of the agent (DEFAULT_CONFIG has 10)
maxIterations == 2
\* the most getSovereignScores calls of a run
MaxLookups == 3
\* the most tool_use blocks of a reply to a Planning call
MaxPlanTools == 3
\* the most StepVerifications retained when the loops of verify have ended
MaxRetained == 3

-----------------------------------------------------------------------------
(* Generic helpers *)

Range(s) == {s[i] : i \in DOMAIN s}

RECURSIVE SubsetsUpTo(_, _)
\* the subsets of S with at most k elements
SubsetsUpTo(S, k) ==
    IF k = 0 THEN {{}}
    ELSE LET smaller == SubsetsUpTo(S, k - 1)
         IN  smaller \cup {T \cup {x} : T \in smaller, x \in S}

-----------------------------------------------------------------------------
(* Plans *)

\* an id that names no step of a plan of n steps
DanglingId(n) == n + 1

\* (step, dependency) pairs a plan of n steps may declare: a dependency is
\* any step id (its own included) or the dangling id
PossibleEdges(n) == (1..n) \X (1..DanglingId(n))

\* PlanStep (types: id, toolName, input, dependsOn, requiresVerification)
PlanStep(i, tool, inp, deps, rv) ==
    [id |-> i, toolName |-> tool, input |-> inp, dependsOn |-> deps,
     requiresVerification |-> rv]

DepsOf(E, i) == {e[2] : e \in {x \in E : x[1] = i}}

\* the step lists handed to the scheduler alone: only id and dependsOn matter
SchedulerInputs ==
    UNION {
        { [i \in 1..n |-> PlanStep(i, "tool", "in", DepsOf(E, i), FALSE)]
            : E \in SubsetsUpTo(PossibleEdges(n), MaxEdges) }
        : n \in 0..MaxSteps }

-----------------------------------------------------------------------------
(* buildExecutionLevels *)

IdsOf(stepSeq) == {stepSeq[i].id : i \in DOMAIN stepSeq}

\* a variant that asks for some resolved dependency instead of every one
depsResolved_some(step, done) ==
    step.dependsOn = {} \/ \E dep \in step.dependsOn : dep \in done

\* step.dependsOn.every((dep) => completed.has(dep))
depsResolved(step, done) ==
    \A dep \in step.dependsOn : dep \in done

\* a variant of the pass that puts every remaining step into `level`
LevelOfPass_all(rem, done) == rem

\* the for loop of one pass: the steps that go to `level`
LevelOfPass(rem, done) ==
    LET Resolved(st) == depsResolved(st, done) IN SelectSeq(rem, Resolved)

\* a variant of the pass that never takes a step out of `remaining`
StillRemainingOfPass_all(rem, done) == rem

\* the for loop of one pass: the steps that go to `stillRemaining`
StillRemainingOfPass(rem, done) ==
    LET Unresolved(st) == ~depsResolved(st, done) IN SelectSeq(rem, Unresolved)

\* a variant that pushes the (empty) level instead of what remains
FallbackLevel_empty(level, stillRemaining) == level

\* levels.push(stillRemaining) of the "no progress" branch
FallbackLevel(level, stillRemaining) == stillRemaining

\* if (steps.length === 0) return []; and the declarations before the loop
BuildLevelsEnter ==
    /\ schedPc = "entry"
    /\ levels' = <<>>
    /\ completed' = {}
    /\ IF Len(steps) = 0
       THEN /\ schedPc' = "done"
            /\ remaining' = <<>>
       ELSE /\ schedPc' = "while"
            /\ remaining' = steps
    /\ UNCHANGED <<steps, fallback, memVars, gateVars, synthVars, verifyVars,
                   agentVars, sovVars, readVars>>

\* one iteration of while (remaining.length > 0)
BuildLevelsPass ==
    /\ schedPc = "while"
    /\ Len(remaining) > 0
    /\ LET level == LevelOfPass(remaining, completed)
           stillRemaining == StillRemainingOfPass(remaining, completed)
       IN  IF Len(level) = 0
           THEN /\ levels' = Append(levels, FallbackLevel(level, stillRemaining))
                /\ fallback' = TRUE
                /\ schedPc' = "done"
                /\ UNCHANGED <<completed, remaining>>
           ELSE /\ levels' = Append(levels, level)
                /\ completed' = completed \cup IdsOf(level)
                /\ remaining' = stillRemaining
                /\ UNCHANGED <<fallback, schedPc>>
    /\ UNCHANGED <<steps, memVars, gateVars, synthVars, verifyVars,
                   agentVars, sovVars, readVars>>

\* the loop condition fails: return levels
BuildLevelsReturn ==
    /\ schedPc = "while"
    /\ Len(remaining) = 0
    /\ schedPc' = "done"
    /\ UNCHANGED <<steps, levels, completed, remaining, fallback, memVars, gateVars, synthVars, verifyVars,
                   agentVars, sovVars, readVars>>

SchedInit(stepList) ==
    /\ steps = stepList
    /\ levels = <<>>
    /\ completed = {}
    /\ remaining = <<>>
    /\ fallback = FALSE
    /\ schedPc = "entry"

-----------------------------------------------------------------------------
(* SessionMemory: the trust cache (memory.ts, in agent.ts 224-257) *)

\* export const TRUST_CACHE_TTL_MS = 5 * 60 * 1000
TRUST_CACHE_TTL_MS == 5 * 60 * 1000

\* trustCacheKey: `${origin}:${target}:${dimension}`; identities hold no ':'
\* so the key is the triple
trustCacheKey(origin, target, dimension) == <<origin, target, dimension>>

\* a variant that treats an entry as expired at expiresAt itself
Expired_atExpiry(t, entry) == t >= entry.expiresAt

\* Date.now() > entry.expiresAt
Expired(t, entry) == t > entry.expiresAt

\* getCachedTrust: whether the read returns an assessment
TrustHit(cache, key, t) ==
    /\ key \in DOMAIN cache
    /\ ~Expired(t, cache[key])

\* a variant of the read that deletes an entry it returns
TrustCacheAfterRead_evicting(cache, key, t) ==
    IF key \in DOMAIN cache THEN [k \in DOMAIN cache \ {key} |-> cache[k]] ELSE cache

\* getCachedTrust: the cache the read leaves (an expired entry is deleted)
TrustCacheAfterRead(cache, key, t) ==
    IF key \in DOMAIN cache /\ Expired(t, cache[key])
    THEN [k \in DOMAIN cache \ {key} |-> cache[k]]
    ELSE cache

\* a variant that stamps the entry with the TTL alone
NewExpiry_noClock(t) == TRUST_CACHE_TTL_MS

\* Date.now() + TRUST_CACHE_TTL_MS
NewExpiry(t) == t + TRUST_CACHE_TTL_MS

\* cacheTrust: memory.trustCache.set(key, {assessment, expiresAt})
cacheTrust(cache, key, assessment, t) ==
    [k \in DOMAIN cache \cup {key} |->
        IF k = key
        THEN [assessment |-> assessment, expiresAt |-> NewExpiry(t)]
        ELSE cache[k]]

\* createSessionMemory
\* the agent before a run call, with the messages of earlier turns
AgentInit(pc, history) ==
    /\ agentPc = pc
    /\ iterations = 0
    /\ messages = history
    /\ messagesBefore = history
    /\ runOutput = <<>>
    /\ phases = <<>>
    /\ planReply = <<>>
    /\ rounds = <<>>

\* no cache read has been made
NoRead ==
    [parity |-> 0, cache |-> "none", key |-> <<>>, sawExpired |-> FALSE, returned |-> <<>>]

ReadInit == lastRead = NoRead

\* createSessionMemory: sovereignCache: new Map()
SovInit ==
    /\ sovereignCache = <<>>
    /\ lookups = <<>>

MemInit ==
    /\ now = 0
    /\ trustCache = <<>>

\* the clock advances by exactly one TTL or by one millisecond more; the
\* number of advances so far is now \div TRUST_CACHE_TTL_MS
Tick ==
    \E d \in {TRUST_CACHE_TTL_MS, TRUST_CACHE_TTL_MS + 1} :
        /\ (now + d) \div TRUST_CACHE_TTL_MS <= MaxTicks
        /\ now' = now + d
        /\ UNCHANGED <<trustCache, schedVars, gateVars, synthVars, verifyVars,
                       agentVars, sovVars, readVars>>

-----------------------------------------------------------------------------
(* TrustGate: policy (trust-gate.ts 95-127) *)

\* TrustConfidence (an enum of @lattice/sdk)
Confidences == {"High", "Medium", "Low", "None"}

PresentationActions == {"present", "present_with_caveat", "warn", "omit"}

\* a variant in which Low is presented with a caveat
mapConfidenceToAction_lowPresented(confidence) ==
    CASE confidence = "High" -> "present"
      [] confidence = "Medium" -> "present_with_caveat"
      [] confidence = "Low" -> "present_with_caveat"
      [] OTHER -> "omit"

\* mapConfidenceToAction
mapConfidenceToAction(confidence) ==
    CASE confidence = "High" -> "present"
      [] confidence = "Medium" -> "present_with_caveat"
      [] confidence = "Low" -> "warn"
      [] confidence = "None" -> "omit"
      [] OTHER -> "omit"

\* caveat: string | null; the null caveat is the empty tuple
NoCaveat == <<>>

\* trustWeight.toFixed(2): weights are in thousandths, the text in hundredths
ToFixed2(w) == (w + 5) \div 10

\* buildCaveat: the text with the numbers it interpolates
buildCaveat(confidence, trustWeight, depth) ==
    CASE confidence = "High" -> NoCaveat
      [] confidence = "Medium" ->
            <<"Trust path found. Results may need independent verification.",
              depth, ToFixed2(trustWeight)>>
      [] confidence = "Low" ->
            <<"Weak trust path. Treat this data with caution.",
              depth, ToFixed2(trustWeight)>>
      [] confidence = "None" ->
            <<"No trust path found. This data cannot be verified and has been omitted.">>
      [] OTHER -> NoCaveat

-----------------------------------------------------------------------------
(* Synthesizer.executeStep: the StepResult of a step (synthesizer.ts 59-94) *)

\* null (output: null, error: null) is the empty tuple, a value v is <<v>>
Null == <<>>
Some(v) == <<v>>

\* StepResult {stepId, toolName, output, error}; durationMs is left out
StepResult(stepId, toolName, output, error) ==
    [stepId |-> stepId, toolName |-> toolName, output |-> output, error |-> error]

\* err instanceof Error ? err.message : String(err); a text is the pair of
\* how it was made and what from, so the texts of different failures differ
ErrorText(err) ==
    IF err.isError THEN <<"message", err.message>> ELSE <<"String", err.value>>

\* the empty text, as the message of an Error made without one
EmptyErrorText == <<"message", "">>

\* what new PublicKey throws on an invalid key
InvalidKeyError ==
    [isError |-> TRUE, message |-> "Invalid public key input", value |-> Null]

\* what a tool, a built-in handler or TrustOracle may throw: an Error with a
\* message, or a value that is not an Error
Thrown ==
    {[isError |-> TRUE, message |-> "request failed", value |-> Null],
     [isError |-> FALSE, message |-> Null, value |-> 503]}

\* a variant in which the failure leaves executeStep as a rejection
SettleFailure_rethrown(step, err) ==
    [state |-> "rejected", outcome |-> "failed", result |-> Null]

\* a variant of the catch block that keeps an output next to the error
SettleFailure_withOutput(step, err) ==
    [state |-> "settled", outcome |-> "failed",
     result |-> Some(StepResult(step.id, step.toolName, Some(<<"partial">>),
                                Some(ErrorText(err))))]

\* the catch block (85-93): the failure becomes the step's result
SettleFailure(step, err) ==
    [state |-> "settled", outcome |-> "failed",
     result |-> Some(StepResult(step.id, step.toolName, Null, Some(ErrorText(err))))]

\* the return of the try block (78-84)
SettleSuccess(step, output) ==
    [state |-> "settled", outcome |-> "ok",
     result |-> Some(StepResult(step.id, step.toolName, Some(output), Null))]

\* executeLatticeAssess: the output built from the verification (144-150)
LatticeAssessOutput(v) ==
    [confidence |-> v.confidence, trustWeight |-> v.trustWeight,
     path |-> v.path, action |-> v.action, caveat |-> v.caveat]

StepWithId(id) == steps[CHOOSE i \in DOMAIN steps : steps[i].id = id]

\* the executeStep promises that wait on assessWallet call c, after the call
\* has returned verification v
RunAfterAssessReturns(run, c, v) ==
    [id \in DOMAIN run |->
        IF run[id].state = "awaiting" /\ StepWithId(id).toolName = "lattice_assess"
           /\ c.stepId = id
        THEN SettleSuccess(StepWithId(id), LatticeAssessOutput(v))
        ELSE run[id]]

\* the executeStep promises that wait on assessWallet call c, after the call
\* has raised err
RunAfterAssessRaises(run, c, err) ==
    [id \in DOMAIN run |->
        IF run[id].state = "awaiting" /\ StepWithId(id).toolName = "lattice_assess"
           /\ c.stepId = id
        THEN SettleFailure(StepWithId(id), err)
        ELSE run[id]]

-----------------------------------------------------------------------------
(* TrustGate.assessWallet (trust-gate.ts 28-61) *)

\* identities: O is the origin, A and B are targets; X matches the identity
\* pattern but is no valid public key, so new PublicKey(X) throws
Origins == {"O"}
Targets == {"A", "B", "X"}
ValidKeys == {"O", "A", "B"}
\* TrustDimension
Dimensions == {0}

\* what TrustOracle.assess may resolve with: {confidence, trustWeight, path,
\* depth}: any confidence with a path found, or None with no path
OracleAnswers(origin, target) ==
    {[confidence |-> c, trustWeight |-> 875, path |-> <<origin, target>>,
      depth |-> 1] : c \in Confidences}
    \cup {[confidence |-> "None", trustWeight |-> 0, path |-> <<>>, depth |-> 0]}

\* the StepVerification built on a miss (46-55)
BuildVerification(stepId, assessment) ==
    [stepId |-> stepId,
     action |-> mapConfidenceToAction(assessment.confidence),
     confidence |-> assessment.confidence,
     trustWeight |-> assessment.trustWeight,
     path |-> assessment.path,
     caveat |-> buildCaveat(assessment.confidence, assessment.trustWeight,
                            assessment.depth)]

\* return { ...cached, stepId }
Restamp(cached, stepId) == [cached EXCEPT !.stepId = stepId]

\* the payload of a StepVerification: everything but stepId
Payload(v) ==
    [action |-> v.action, confidence |-> v.confidence,
     trustWeight |-> v.trustWeight, path |-> v.path, caveat |-> v.caveat]

\* The record of one assessWallet call, as its synchronous part (35-44)
\* leaves it.  state: "awaiting" (engine.assess is pending), "returned",
\* "raised".  The remaining fields are history: when it was issued, which
\* calls had settled by then, whether the read found an expired entry,
\* whether the cache answered, how often engine.assess was invoked, and,
\* once returned, the result and the time of return.
IssuedCall(cache, t, log, origin, target, dimension, stepId) ==
    LET key == trustCacheKey(origin, target, dimension)
        hit == TrustHit(cache, key, t)
        keysOk == origin \in ValidKeys /\ target \in ValidKeys
    IN  [origin |-> origin, target |-> target, dimension |-> dimension,
         stepId |-> stepId, key |-> key, issuedAt |-> t,
         settledBefore |-> {i \in DOMAIN log : log[i].state # "awaiting"},
         sawExpired |-> key \in DOMAIN cache /\ ~hit,
         hit |-> hit,
         state |-> IF hit THEN "returned"
                   ELSE IF keysOk THEN "awaiting" ELSE "raised",
         invoked |-> IF ~hit /\ keysOk THEN 1 ELSE 0,
         result |-> IF hit THEN <<Restamp(cache[key].assessment, stepId)>> ELSE <<>>,
         settledAt |-> t]

\* a client issues assessWallet(origin, target, dimension, stepId, memory);
\* the i-th call of the run comes from step i
GateCall ==
    \E origin \in Origins, target \in Targets, dimension \in Dimensions :
      LET stepId == Len(calls) + 1 IN
        /\ Len(calls) < MaxCalls
        /\ calls' = Append(calls,
              IssuedCall(trustCache, now, calls, origin, target, dimension, stepId))
        /\ trustCache' = TrustCacheAfterRead(trustCache,
              trustCacheKey(origin, target, dimension), now)
        /\ UNCHANGED <<now, schedVars, synthVars, verifyVars,
                       agentVars, sovVars, readVars>>

\* engine.assess resolves: lines 46-60 run, the result is cached and returned
OracleResolves ==
    \E i \in DOMAIN calls :
        /\ calls[i].state = "awaiting"
        /\ \E assessment \in OracleAnswers(calls[i].origin, calls[i].target) :
             LET verification == BuildVerification(calls[i].stepId, assessment)
             IN  /\ trustCache' = cacheTrust(trustCache, calls[i].key, verification, now)
                 /\ calls' = [calls EXCEPT ![i].state = "returned",
                                           ![i].result = <<verification>>,
                                           ![i].settledAt = now]
                 /\ stepRun' = RunAfterAssessReturns(stepRun, calls[i], verification)
        /\ UNCHANGED <<now, schedVars, synthPc, levelIdx, stepResults, dispatched,
                       aggregatedContext, verifyVars,
                       agentVars, sovVars, readVars>>

\* engine.assess rejects: assessWallet raises, nothing is cached
OracleRejects ==
    \E i \in DOMAIN calls, err \in Thrown :
        /\ calls[i].state = "awaiting"
        /\ calls' = [calls EXCEPT ![i].state = "raised", ![i].settledAt = now]
        /\ stepRun' = RunAfterAssessRaises(stepRun, calls[i], err)
        /\ UNCHANGED <<now, trustCache, schedVars, synthPc, levelIdx, stepResults,
                       dispatched, aggregatedContext, verifyVars,
                       agentVars, sovVars, readVars>>

GateInit == calls = <<>>

-----------------------------------------------------------------------------
(* Synthesizer.synthesize (synthesizer.ts 37-57) *)

\* the targets a lattice_assess step of a plan names
SynthTargets == {"A", "X"}

\* step.input
StepInput(origin, target, dimension) ==
    [origin |-> origin, target |-> target, dimension |-> dimension]

\* (toolName, input) of a step: a ToolExecutor tool, and lattice_assess on a
\* valid and on an invalid target. executeStep treats a lattice_query step
\* as it treats a tool step (one await that resolves with an output or
\* throws, lines 69-76), so the tool step stands for both.
StepShapes ==
    {[toolName |-> "vault_read", input |-> StepInput("O", "A", 0)]}
    \cup {[toolName |-> "lattice_assess", input |-> StepInput(o, t, d)] :
            o \in Origins, t \in SynthTargets, d \in Dimensions}

\* export const VERIFICATION_REQUIRED_TOOLS
VERIFICATION_REQUIRED_TOOLS ==
    {"sovereign_read", "trust_query", "trust_score", "lattice_query",
     "lattice_assess", "vault_read", "vault_disclose"}

\* the dependencies of the plans handed to synthesize: on another step of
\* the plan (self and dangling dependencies are inputs of the scheduler above)
SynthEdges(n) == {e \in (1..n) \X (1..n) : e[1] # e[2]}

\* the plan of n steps with the dependency edges E and the given shapes
SynthPlan(n, E, shape) ==
    [i \in 1..n |->
        PlanStep(i, shape[i].toolName, shape[i].input, DepsOf(E, i),
                 shape[i].toolName \in VERIFICATION_REQUIRED_TOOLS)]

\* what a ToolExecutor tool or the trust-graph query may return: a text, as
\* the sequence of the identity-like tokens in it
ToolOutputs == {<<"A">>}

IdleRun == [state |-> "idle", outcome |-> "none", result |-> Null]
AwaitingRun == [state |-> "awaiting", outcome |-> "none", result |-> Null]

SynthInit(pc) ==
    /\ synthPc = pc
    /\ levelIdx = 0
    /\ stepRun = [id \in IdsOf(steps) |-> IdleRun]
    /\ stepResults = <<>>
    /\ dispatched = [id \in IdsOf(steps) |-> 0]
    /\ aggregatedContext = Null

\* const levels = buildExecutionLevels(plan.steps) has returned; the for
\* loop starts, or is skipped when there is no level
SynthLevelsBuilt ==
    /\ synthPc = "levels"
    /\ schedPc = "done"
    /\ levelIdx' = 1
    /\ synthPc' = IF Len(levels) = 0 THEN "aggregate" ELSE "launch"
    /\ UNCHANGED <<schedVars, memVars, gateVars, stepRun, stepResults, dispatched,
                   aggregatedContext, verifyVars,
                   agentVars, sovVars, readVars>>

\* The synchronous part of executeStep for one step, applied to st =
\* [calls, cache, run, dispatched]: the tool or the handler is invoked; a
\* lattice_assess step reads the cache and, on a miss, invokes engine.assess.
LaunchStep(st, step) ==
    IF step.toolName = "lattice_assess"
    THEN LET c == IssuedCall(st.cache, now, st.calls, step.input.origin,
                             step.input.target, step.input.dimension, step.id)
         IN  [calls |-> Append(st.calls, c),
              cache |-> TrustCacheAfterRead(st.cache, c.key, now),
              run |-> [st.run EXCEPT ![step.id] =
                          CASE c.state = "awaiting" -> AwaitingRun
                            [] c.state = "returned" ->
                                  SettleSuccess(step, LatticeAssessOutput(c.result[1]))
                            [] OTHER -> SettleFailure(step, InvalidKeyError)],
              dispatched |-> [st.dispatched EXCEPT ![step.id] = @ + 1]]
    ELSE [st EXCEPT !.run[step.id] = AwaitingRun,
                    !.dispatched[step.id] = @ + 1]

RECURSIVE LaunchAll(_, _)
\* level.map((step) => this.executeStep(step, stepResults, memory))
LaunchAll(st, level) ==
    IF Len(level) = 0 THEN st
    ELSE LaunchAll(LaunchStep(st, Head(level)), Tail(level))

\* line 44-46: every step of the level is started, in list order
SynthLaunchLevel ==
    /\ synthPc = "launch"
    /\ LET st == LaunchAll([calls |-> calls, cache |-> trustCache, run |-> stepRun,
                            dispatched |-> dispatched], levels[levelIdx])
       IN  /\ calls' = st.calls
           /\ trustCache' = st.cache
           /\ stepRun' = st.run
           /\ dispatched' = st.dispatched
    /\ synthPc' = "await"
    /\ UNCHANGED <<schedVars, now, levelIdx, stepResults, aggregatedContext, verifyVars,
                   agentVars, sovVars, readVars>>

\* mcpBridge.callTool or engine.query resolves
ToolResolves ==
    \E id \in DOMAIN stepRun, output \in ToolOutputs :
        /\ stepRun[id].state = "awaiting"
        /\ StepWithId(id).toolName # "lattice_assess"
        /\ stepRun' = [stepRun EXCEPT ![id] = SettleSuccess(StepWithId(id), output)]
        /\ UNCHANGED <<schedVars, memVars, gateVars, synthPc, levelIdx, stepResults,
                       dispatched, aggregatedContext, verifyVars,
                       agentVars, sovVars, readVars>>

\* mcpBridge.callTool or the trust-graph query handler throws
ToolRejects ==
    \E id \in DOMAIN stepRun, err \in Thrown :
        /\ stepRun[id].state = "awaiting"
        /\ StepWithId(id).toolName # "lattice_assess"
        /\ stepRun' = [stepRun EXCEPT ![id] = SettleFailure(StepWithId(id), err)]
        /\ UNCHANGED <<schedVars, memVars, gateVars, synthPc, levelIdx, stepResults,
                       dispatched, aggregatedContext, verifyVars,
                       agentVars, sovVars, readVars>>

\* a variant that goes on as soon as one step of the level has settled
LevelJoined_any(level, run) ==
    \E i \in DOMAIN level : run[level[i].id].state # "awaiting"

\* Promise.all settles: every promise is fulfilled, or one is rejected
LevelJoined(level, run) ==
    \/ \A i \in DOMAIN level : run[level[i].id].state = "settled"
    \/ \E i \in DOMAIN level : run[level[i].id].state = "rejected"

RECURSIVE SetAll(_, _, _)
\* for (const result of results) stepResults.set(result.stepId, result)
SetAll(map, level, run) ==
    IF Len(level) = 0 THEN map
    ELSE LET r == run[Head(level).id].result
             next == IF r = Null THEN map
                     ELSE [k \in DOMAIN map \cup {r[1].stepId} |->
                              IF k = r[1].stepId THEN r[1] ELSE map[k]]
         IN  SetAll(next, Tail(level), run)

\* the await of line 44 ends: the results of the level are recorded (48-50)
\* and the loop goes to the next level, or a rejection leaves synthesize
SynthRecordLevel ==
    /\ synthPc = "await"
    /\ LevelJoined(levels[levelIdx], stepRun)
    /\ IF \E i \in DOMAIN levels[levelIdx] :
             stepRun[levels[levelIdx][i].id].state = "rejected"
       THEN /\ synthPc' = "raised_in_loop"
            /\ UNCHANGED <<stepResults, levelIdx>>
       ELSE /\ stepResults' = SetAll(stepResults, levels[levelIdx], stepRun)
            /\ levelIdx' = levelIdx + 1
            /\ synthPc' = IF levelIdx < Len(levels) THEN "launch" ELSE "aggregate"
    /\ UNCHANGED <<schedVars, memVars, gateVars, stepRun, dispatched, aggregatedContext, verifyVars,
                   agentVars, sovVars, readVars>>

\* aggregate (153-180): r.error is falsy for null and for the empty text
HasError(r) == r.error # Null /\ r.error # Some(EmptyErrorText)

\* aggregate returns the single error-free output itself, without the Reasoner
AggregatesDirectly ==
    /\ Cardinality(DOMAIN stepResults) = 1
    /\ \A id \in DOMAIN stepResults : ~HasError(stepResults[id])

\* the texts the Reasoner may answer the aggregation prompt with
AggregateReplies == {"summary"}

\* typeof r.output === 'string' ? r.output : JSON.stringify(r.output); no
\* output of the model is a string
Stringify(output) == <<"JSON", output>>

\* the output field of a summary (line 157)
SummaryOutput(r) == IF HasError(r) THEN "" ELSE Stringify(r.output[1])

\* const aggregatedContext = await this.aggregate(stepResults) returns
SynthAggregateReturns ==
    /\ synthPc = "aggregate"
    /\ IF AggregatesDirectly
       THEN aggregatedContext' =
                Some(SummaryOutput(stepResults[CHOOSE id \in DOMAIN stepResults : TRUE]))
       ELSE \E text \in AggregateReplies : aggregatedContext' = Some(text)
    /\ synthPc' = "done"
    /\ UNCHANGED <<schedVars, memVars, gateVars, levelIdx, stepRun, stepResults,
                   dispatched, verifyVars,
                   agentVars, sovVars, readVars>>

\* the Reasoner call of aggregate (168-172) throws: synthesize raises
SynthAggregateRaises ==
    /\ synthPc = "aggregate"
    /\ ~AggregatesDirectly
    /\ synthPc' = "raised_in_aggregate"
    /\ UNCHANGED <<schedVars, memVars, gateVars, levelIdx, stepRun, stepResults,
                   dispatched, aggregatedContext, verifyVars,
                   agentVars, sovVars, readVars>>

-----------------------------------------------------------------------------
(* TrustGate.getSovereignScores (trust-gate.ts 64-92) *)

\* the identities looked up: A is a valid key, new PublicKey(X) throws
SovWallets == {"A", "X"}

\* what readSovereignScores may resolve with: null (no record) or a record
NoRecord == [found |-> FALSE, trading |-> 0, civic |-> 0, developer |-> 0, infra |-> 0,
             creator |-> 0, tier |-> 0]
SovereignRecords ==
    {[found |-> TRUE, trading |-> 1, civic |-> 2, developer |-> 3, infra |-> 4,
      creator |-> 5, tier |-> 2]}

\* the scores object built from a record (77-83)
ScoresOf(sovereign) ==
    [trading |-> sovereign.trading, civic |-> sovereign.civic,
     developer |-> sovereign.developer, infra |-> sovereign.infra,
     creator |-> sovereign.creator]

\* {scores, tier}; the scores of the empty result are the empty object
ScoreResult(scores, tier) == [scores |-> scores, tier |-> tier]
EmptyScoreResult == ScoreResult(<<>>, 0)

\* getCachedSovereign: whether the read returns an entry
SovereignHit(cache, wallet, t) ==
    /\ wallet \in DOMAIN cache
    /\ ~(t > cache[wallet].expiresAt)

\* getCachedSovereign: the cache the read leaves (an expired entry is deleted)
SovereignCacheAfterRead(cache, wallet, t) ==
    IF wallet \in DOMAIN cache /\ t > cache[wallet].expiresAt
    THEN [k \in DOMAIN cache \ {wallet} |-> cache[k]]
    ELSE cache

\* cacheSovereign: memory.sovereignCache.set(wallet, {scores, tier, expiresAt})
cacheSovereign(cache, wallet, scores, tier, t) ==
    [k \in DOMAIN cache \cup {wallet} |->
        IF k = wallet
        THEN [scores |-> scores, tier |-> tier, expiresAt |-> t + TRUST_CACHE_TTL_MS]
        ELSE cache[k]]

\* a variant that caches the empty result of a lookup without a record
CacheAfterRead_negative(cache, wallet, sovereign, t) ==
    IF sovereign.found
    THEN cacheSovereign(cache, wallet, ScoresOf(sovereign), sovereign.tier, t)
    ELSE cacheSovereign(cache, wallet, <<>>, 0, t)

\* lines 75-89: the cache after readSovereignScores resolved
CacheAfterRead(cache, wallet, sovereign, t) ==
    IF sovereign.found
    THEN cacheSovereign(cache, wallet, ScoresOf(sovereign), sovereign.tier, t)
    ELSE cache

\* lines 75-91: what the lookup returns after readSovereignScores resolved
ResultOfRead(sovereign) ==
    IF sovereign.found THEN ScoreResult(ScoresOf(sovereign), sovereign.tier)
    ELSE EmptyScoreResult

\* The synchronous part of getSovereignScores(wallet, memory) at time t (68-74):
\* a hit returns the cached scores and tier, an invalid identity raises,
\* otherwise readSovereignScores is called.
IssuedLookup(cache, t, log, wallet) ==
    LET hit == SovereignHit(cache, wallet, t)
    IN  [wallet |-> wallet, issuedAt |-> t,
         settledBefore |-> {i \in DOMAIN log : log[i].state # "awaiting"},
         hit |-> hit,
         state |-> IF hit THEN "returned"
                   ELSE IF wallet \in ValidKeys THEN "awaiting" ELSE "raised",
         invoked |-> IF ~hit /\ wallet \in ValidKeys THEN 1 ELSE 0,
         found |-> hit,
         result |-> IF hit THEN Some(ScoreResult(cache[wallet].scores, cache[wallet].tier))
                    ELSE Null,
         settledAt |-> t]

\* a client calls getSovereignScores
SovLookup ==
    \E wallet \in SovWallets :
        /\ Len(lookups) < MaxLookups
        /\ lookups' = Append(lookups, IssuedLookup(sovereignCache, now, lookups, wallet))
        /\ sovereignCache' = SovereignCacheAfterRead(sovereignCache, wallet, now)
        /\ UNCHANGED <<schedVars, memVars, gateVars, synthVars, verifyVars, agentVars,
                       readVars>>

\* readSovereignScores resolves with a record or with null
SovReadResolves ==
    \E i \in DOMAIN lookups, sovereign \in SovereignRecords \cup {NoRecord} :
        /\ lookups[i].state = "awaiting"
        /\ sovereignCache' = CacheAfterRead(sovereignCache, lookups[i].wallet, sovereign, now)
        /\ lookups' = [lookups EXCEPT ![i].state = "returned",
                                      ![i].found = sovereign.found,
                                      ![i].result = Some(ResultOfRead(sovereign)),
                                      ![i].settledAt = now]
        /\ UNCHANGED <<schedVars, memVars, gateVars, synthVars, verifyVars, agentVars,
                       readVars>>

\* readSovereignScores rejects: the lookup raises, nothing is cached
SovReadRejects ==
    \E i \in DOMAIN lookups :
        /\ lookups[i].state = "awaiting"
        /\ lookups' = [lookups EXCEPT ![i].state = "raised", ![i].settledAt = now]
        /\ UNCHANGED <<schedVars, memVars, gateVars, synthVars, verifyVars, agentVars,
                       sovereignCache, readVars>>

-----------------------------------------------------------------------------
(* Direct reads and writes of the two caches of a SessionMemory *)

\* the keys of the trust cache that are read and written
ReadKeys == {trustCacheKey("O", t, 0) : t \in {"A", "B"}}

\* the identities of the score cache that are read and written
ReadWallets == {"A"}

\* the assessments written to the trust cache
WrittenAssessments ==
    {BuildVerification(1, a) : a \in {x \in OracleAnswers("O", "A") :
                                        x.confidence \in {"High", "None"}}}

\* getCachedTrust(memory, origin, target, dimension) at the current time;
\* parity tells one read from the next
ReadTrust ==
    \E key \in ReadKeys :
        /\ lastRead' = [parity |-> 1 - lastRead.parity, cache |-> "trust",
                        key |-> key,
                        sawExpired |-> key \in DOMAIN trustCache
                                       /\ ~TrustHit(trustCache, key, now),
                        returned |-> IF TrustHit(trustCache, key, now)
                                     THEN Some(trustCache[key].assessment)
                                     ELSE Null]
        /\ trustCache' = TrustCacheAfterRead(trustCache, key, now)
        /\ UNCHANGED <<now, schedVars, gateVars, synthVars, verifyVars, agentVars,
                       sovVars>>

\* cacheTrust(memory, origin, target, dimension, assessment) at the current time
WriteTrust ==
    \E key \in ReadKeys, assessment \in WrittenAssessments :
        /\ trustCache' = cacheTrust(trustCache, key, assessment, now)
        /\ UNCHANGED <<now, schedVars, gateVars, synthVars, verifyVars, agentVars,
                       sovVars, readVars>>

\* getCachedSovereign(memory, wallet) at the current time
ReadSovereign ==
    \E wallet \in ReadWallets :
        /\ lastRead' = [parity |-> 1 - lastRead.parity, cache |-> "score",
                        key |-> <<wallet>>,
                        sawExpired |-> wallet \in DOMAIN sovereignCache
                                       /\ ~SovereignHit(sovereignCache, wallet, now),
                        returned |-> IF SovereignHit(sovereignCache, wallet, now)
                                     THEN Some(sovereignCache[wallet])
                                     ELSE Null]
        /\ sovereignCache' = SovereignCacheAfterRead(sovereignCache, wallet, now)
        /\ UNCHANGED <<schedVars, memVars, gateVars, synthVars, verifyVars, agentVars,
                       lookups>>

\* cacheSovereign(memory, wallet, scores, tier) at the current time
WriteSovereign ==
    \E wallet \in ReadWallets, sovereign \in SovereignRecords :
        /\ sovereignCache' = cacheSovereign(sovereignCache, wallet, ScoresOf(sovereign),
                                            sovereign.tier, now)
        /\ UNCHANGED <<schedVars, memVars, gateVars, synthVars, verifyVars, agentVars,
                       lookups, readVars>>

-----------------------------------------------------------------------------
(* Verifier.verify (verifier.ts 30-92) *)

\* a parsed.caveats that is undefined
Undefined == <<>>

\* a tool that is not in VERIFICATION_REQUIRED_TOOLS
OtherTool == "other_tool"

\* (toolName, requiresVerification) of a step handed to verify
VerifyShapes ==
    {[toolName |-> "vault_read", requiresVerification |-> TRUE],
     [toolName |-> "vault_read", requiresVerification |-> FALSE],
     [toolName |-> OtherTool, requiresVerification |-> TRUE]}

\* the outputs of the steps handed to verify: the tokens of the output, "w"
\* is a word, the others match WALLET_REGEX
VerifyOutputs ==
    {<<"w">>, <<"A">>, <<"B">>, <<"O", "A">>, <<"A", "w", "B", "A">>, <<"X">>}

\* what synthesis.stepResults holds for a step: nothing, a failure, an output
VerifyResultChoices ==
    {[kind |-> "absent", output |-> <<>>], [kind |-> "failed", output |-> <<>>]}
    \cup {[kind |-> "ok", output |-> out] : out \in VerifyOutputs}

\* the originWallet arguments: null, the empty text, an identity
OriginWallets == {Null, Some(""), Some("O")}

\* a variant that tests for null only
OriginMissing_nullOnly(origin) == origin = Null

\* !originWallet
OriginMissing(origin) == origin = Null \/ origin = Some("")

\* plan.steps.filter(step.requiresVerification && VERIFICATION_REQUIRED_TOOLS.has)
StepsNeedingVerification(stepList) ==
    SelectSeq(stepList, LAMBDA step :
        step.requiresVerification /\ step.toolName \in VERIFICATION_REQUIRED_TOOLS)

\* const WALLET_REGEX: the tokens that match it
MatchesWalletRegex(token) == token \in {"O", "A", "B", "X"}

RECURSIVE Dedupe(_, _)
\* [...new Set(matches)]: the first occurrence of each match, in order
Dedupe(matches, seen) ==
    IF Len(matches) = 0 THEN <<>>
    ELSE IF Head(matches) \in seen THEN Dedupe(Tail(matches), seen)
    ELSE <<Head(matches)>> \o Dedupe(Tail(matches), seen \cup {Head(matches)})

\* the tokens of the text of an output: the output of a lattice_assess step
\* is the object of executeLatticeAssess, whose identities are those of its
\* path; every other output of the model is its own token sequence
TextTokens(toolName, text) ==
    IF toolName = "lattice_assess" THEN text[2].path ELSE text[2]

\* extractWallets on the tokens of a text
extractWallets(tokens) == Dedupe(SelectSeq(tokens, MatchesWalletRegex), {})

\* the assessWallet calls the inner loop makes for one step (53-66)
WorkOfStep(step, results, origin) ==
    IF step.id \notin DOMAIN results THEN <<>>
    ELSE IF HasError(results[step.id]) THEN <<>>
    ELSE LET wallets == extractWallets(TextTokens(results[step.id].toolName,
                                          Stringify(results[step.id].output[1])))
             others == SelectSeq(wallets, LAMBDA w : w # origin)
         IN  [i \in DOMAIN others |->
                 [stepId |-> step.id, wallet |-> others[i],
                  dimension |-> step.input.dimension]]

RECURSIVE WorkOf(_, _, _)
\* the assessWallet calls of the two loops, in order (52-77)
WorkOf(stepList, results, origin) ==
    IF Len(stepList) = 0 THEN <<>>
    ELSE WorkOfStep(Head(stepList), results, origin)
         \o WorkOf(Tail(stepList), results, origin)

\* a variant of set that keeps the value a key already has
MapSet_keepFirst(map, key, v) ==
    IF \E i \in DOMAIN map : map[i].key = key THEN map
    ELSE Append(map, [key |-> key, value |-> v])

\* stepVerifications.set(key, v): a Map keeps the position of a key it has
MapSet(map, key, v) ==
    IF \E i \in DOMAIN map : map[i].key = key
    THEN [i \in DOMAIN map |-> IF map[i].key = key THEN [key |-> key, value |-> v]
                               ELSE map[i]]
    ELSE Append(map, [key |-> key, value |-> v])

\* Array.from(stepVerifications.values())
MapValues(map) == [i \in DOMAIN map |-> map[i].value]

\* a variant that looks at the first verification only
HasOmitted_first(verifications) ==
    Len(verifications) > 0 /\ verifications[1].action = "omit"

\* verifications.some((v) => v.action === 'omit')
HasOmitted(verifications) ==
    \E i \in DOMAIN verifications : verifications[i].action = "omit"

\* a variant that roots the query at the last hop of the path
buildFollowUpPlan_lastHop(verifications) ==
    LET omitted == SelectSeq(verifications, LAMBDA v : v.action = "omit")
    IN  [i \in DOMAIN omitted |->
            PlanStep(<<"followup", i - 1>>, "lattice_query",
                     [origin |-> IF Len(omitted[i].path) > 0
                                 THEN omitted[i].path[Len(omitted[i].path)] ELSE "",
                      dimension |-> 0, maxDepth |-> 6],
                     {}, TRUE)]

\* buildFollowUpPlan (144-162); the index i of followup_i starts at 0
buildFollowUpPlan(verifications) ==
    LET omitted == SelectSeq(verifications, LAMBDA v : v.action = "omit")
    IN  [i \in DOMAIN omitted |->
            PlanStep(<<"followup", i - 1>>, "lattice_query",
                     [origin |-> IF Len(omitted[i].path) > 0 THEN omitted[i].path[1] ELSE "",
                      dimension |-> 0, maxDepth |-> 6],
                     {}, TRUE)]

\* the VerificationResult
VerificationResult(map, passed, caveats, followUp) ==
    [stepVerifications |-> map, overallPassed |-> passed, caveats |-> caveats,
     followUpPlan |-> followUp]

\* the return of lines 86-91 with the caveats generateCaveats gave
VerifyReturn(map, caveats) ==
    LET verifications == MapValues(map)
    IN  VerificationResult(map, ~HasOmitted(verifications), caveats,
            IF HasOmitted(verifications)
            THEN Some(buildFollowUpPlan(verifications)) ELSE Null)

\* a variant that skips the Reasoner only when nothing was retained
CaveatsWithoutReasoner_emptyOnly(verifications) == Len(verifications) = 0

\* generateCaveats returns [] without the Reasoner (98-103)
CaveatsWithoutReasoner(verifications) ==
    \/ Len(verifications) = 0
    \/ \A i \in DOMAIN verifications : verifications[i].confidence = "High"

\* the fallback of generateCaveats (132-134)
FallbackCaveats(verifications) ==
    LET withCaveat == SelectSeq(verifications, LAMBDA v : v.caveat # NoCaveat)
    IN  [i \in DOMAIN withCaveat |-> withCaveat[i].caveat]

\* what the Reasoner may answer: a JSON object with caveats, one with an
\* empty caveats array, one without that field, braces that are no JSON, a
\* text without braces
ReasonerReplies ==
    {"caveats", "empty_caveats", "no_caveats_field", "not_json", "no_braces"}

\* lines 119-134 on a reply
CaveatsOfReply(reply, verifications) ==
    CASE reply = "caveats" -> Some(<<"caveat from the Reasoner">>)
      [] reply = "empty_caveats" -> Some(<<>>)
      [] reply = "no_caveats_field" -> Undefined
      [] OTHER -> Some(FallbackCaveats(verifications))

VerifyInit(pc, origin) ==
    /\ verifyPc = pc
    /\ originWallet = origin
    /\ pending = <<>>
    /\ stepVerifications = <<>>
    /\ verifyResult = Null
    /\ reasonerCalls = 0
    /\ caveatReply = Null

\* lines 36-49: the filter and the short-circuit; otherwise the loops start
VerifyEnter ==
    /\ verifyPc = "entry"
    /\ IF Len(StepsNeedingVerification(steps)) = 0 \/ OriginMissing(originWallet)
       THEN /\ verifyResult' = Some(VerificationResult(stepVerifications, TRUE,
                                                       Some(<<>>), Null))
            /\ verifyPc' = "returned"
            /\ UNCHANGED pending
       ELSE /\ pending' = WorkOf(StepsNeedingVerification(steps), stepResults,
                                 originWallet[1])
            /\ verifyPc' = "loop"
            /\ UNCHANGED verifyResult
    /\ UNCHANGED <<schedVars, memVars, gateVars, synthVars, originWallet,
                   stepVerifications, reasonerCalls, caveatReply,
                   agentVars, sovVars, readVars>>

\* line 67: the next assessWallet call; on a cache hit it returns at once,
\* on an invalid identity it raises at once and verify raises with it
VerifyAssess ==
    /\ verifyPc = "loop"
    /\ Len(pending) > 0
    /\ LET w == Head(pending)
           c == IssuedCall(trustCache, now, calls, originWallet[1], w.wallet,
                           w.dimension, w.stepId)
       IN  /\ calls' = Append(calls, c)
           /\ trustCache' = TrustCacheAfterRead(trustCache, c.key, now)
           /\ CASE c.state = "returned" ->
                     /\ stepVerifications' = MapSet(stepVerifications, w.stepId, c.result[1])
                     /\ pending' = Tail(pending)
                     /\ verifyPc' = "loop"
                [] c.state = "awaiting" ->
                     /\ verifyPc' = "awaitAssess"
                     /\ UNCHANGED <<stepVerifications, pending>>
                [] OTHER ->
                     /\ verifyPc' = "raised"
                     /\ UNCHANGED <<stepVerifications, pending>>
    /\ UNCHANGED <<schedVars, now, synthVars, originWallet, verifyResult, reasonerCalls,
                   caveatReply, agentVars, sovVars, readVars>>

\* the await of line 67 ends with a verification: line 75
VerifyAssessReturns ==
    /\ verifyPc = "awaitAssess"
    /\ calls[Len(calls)].state = "returned"
    /\ stepVerifications' = MapSet(stepVerifications, Head(pending).stepId,
                                   calls[Len(calls)].result[1])
    /\ pending' = Tail(pending)
    /\ verifyPc' = "loop"
    /\ UNCHANGED <<schedVars, memVars, gateVars, synthVars, originWallet, verifyResult,
                   reasonerCalls, caveatReply,
                   agentVars, sovVars, readVars>>

\* the await of line 67 ends with a failure: verify raises
VerifyAssessRaises ==
    /\ verifyPc = "awaitAssess"
    /\ calls[Len(calls)].state = "raised"
    /\ verifyPc' = "raised"
    /\ UNCHANGED <<schedVars, memVars, gateVars, synthVars, originWallet, pending,
                   stepVerifications, verifyResult, reasonerCalls, caveatReply,
                   agentVars, sovVars, readVars>>

\* lines 80-91 when generateCaveats needs no Reasoner; else the Reasoner is called
VerifyCaveats ==
    /\ verifyPc = "loop"
    /\ Len(pending) = 0
    /\ IF CaveatsWithoutReasoner(MapValues(stepVerifications))
       THEN /\ verifyResult' = Some(VerifyReturn(stepVerifications, Some(<<>>)))
            /\ verifyPc' = "returned"
            /\ UNCHANGED reasonerCalls
       ELSE /\ reasonerCalls' = reasonerCalls + 1
            /\ verifyPc' = "awaitReasoner"
            /\ UNCHANGED verifyResult
    /\ UNCHANGED <<schedVars, memVars, gateVars, synthVars, originWallet, pending,
                   stepVerifications, caveatReply,
                   agentVars, sovVars, readVars>>

\* anthropic.messages.create resolves: lines 113-134, then 86-91
VerifyReasonerReplies ==
    /\ verifyPc = "awaitReasoner"
    /\ \E reply \in ReasonerReplies :
          /\ caveatReply' = Some(reply)
          /\ verifyResult' = Some(VerifyReturn(stepVerifications,
                                  CaveatsOfReply(reply, MapValues(stepVerifications))))
    /\ verifyPc' = "returned"
    /\ UNCHANGED <<schedVars, memVars, gateVars, synthVars, originWallet, pending,
                   stepVerifications, reasonerCalls,
                   agentVars, sovVars, readVars>>

\* anthropic.messages.create rejects: verify raises
VerifyReasonerRaises ==
    /\ verifyPc = "awaitReasoner"
    /\ verifyPc' = "raised"
    /\ UNCHANGED <<schedVars, memVars, gateVars, synthVars, originWallet, pending,
                   stepVerifications, verifyResult, reasonerCalls, caveatReply,
                   agentVars, sovVars, readVars>>

-----------------------------------------------------------------------------
(* OraculoAgent.run (agent.ts 64-133) with Planner.plan and Executor.execute *)

\* export const MAX_HISTORY_MESSAGES
MAX_HISTORY_MESSAGES == 50

\* the user message of the turn
UserMessage == "question"

\* the content of the output returned when the iteration bound is reached
DegradedMessage == "I was unable to fully verify all the data within the iteration limit."

Message(role, content) == [role |-> role, content |-> content]

\* addUserMessage
addUserMessage(msgs, content) == Append(msgs, Message("user", content))

\* addAssistantMessage
addAssistantMessage(msgs, content) == Append(msgs, Message("assistant", content))

\* a variant that never trims
trimHistory_never(msgs) == msgs

\* trimHistory: the last MAX_HISTORY_MESSAGES - 2 messages, without the first
\* of them if it is not a user message
trimHistory(msgs) ==
    IF Len(msgs) <= MAX_HISTORY_MESSAGES THEN msgs
    ELSE LET keep == MAX_HISTORY_MESSAGES - 2
             trimmed == SubSeq(msgs, Len(msgs) - keep + 1, Len(msgs))
         IN  IF Len(trimmed) > 0 /\ trimmed[1].role # "user"
             THEN Tail(trimmed) ELSE trimmed

\* memory.messages after n earlier turns that each returned
HistoryOf(n) ==
    [i \in 1..(2 * n) |->
        IF i % 2 = 1 THEN Message("user", "earlier question")
        ELSE Message("assistant", "earlier answer")]

\* memory.messages when run is called: a fresh memory, a full one, or one
\* short of full whose last turn raised after addUserMessage
InitialHistories ==
    {HistoryOf(0), HistoryOf(MAX_HISTORY_MESSAGES \div 2),
     addUserMessage(HistoryOf(MAX_HISTORY_MESSAGES \div 2 - 1), "earlier question")}

\* what the Reasoner may answer a Planning call with: stop_reason, the text
\* of its text blocks, the names of its tool_use blocks
PlannerReplies ==
    {[stop_reason |-> "end_turn", text |-> "hello", tools |-> <<>>],
     [stop_reason |-> "end_turn", text |-> "", tools |-> <<>>],
     [stop_reason |-> "max_tokens", text |-> "hello", tools |-> <<>>],
     [stop_reason |-> "tool_use", text |-> "", tools |-> <<"vault_read">>],
     [stop_reason |-> "tool_use", text |-> "let me check",
      tools |-> <<"sovereign_read", "lattice_assess">>]}

\* a variant in which a dependent tool depends on every earlier step
inferDependencies_everyEarlier(tools, index) ==
    IF tools[index] \in {"lattice_assess", "lattice_query", "vault_disclose"}
    THEN 1..(index - 1)
    ELSE {}

\* inferDependencies: a dependent tool depends on every earlier identity tool
inferDependencies(tools, index) ==
    IF tools[index] \in {"lattice_assess", "lattice_query", "vault_disclose"}
    THEN {i \in 1..(index - 1) :
            tools[i] \in {"sovereign_read", "trust_query", "trust_score"}}
    ELSE {}

\* Planner.plan on a reply (planner.ts 79-115); the step of the i-th tool_use
\* block has id i where the source has step_(i-1)
PlanOf(reply) ==
    IF reply.stop_reason = "end_turn"
    THEN [steps |-> <<>>, directResponse |-> Some(reply.text)]
    ELSE [steps |-> [i \in DOMAIN reply.tools |->
                        PlanStep(i, reply.tools[i], StepInput("O", "A", 0),
                                 inferDependencies(reply.tools, i),
                                 reply.tools[i] \in VERIFICATION_REQUIRED_TOOLS)],
          directResponse |-> Null]

\* a variant that takes every text for a direct response
HasDirectResponse_anyText(plan) == plan.directResponse # Null

\* if (plan.directResponse): null and the empty text are falsy
HasDirectResponse(plan) ==
    plan.directResponse # Null /\ plan.directResponse # Some("")

\* AgentOutput; for type action, content holds the description
AgentOutput(type, content, trustAnnotations) ==
    [type |-> type, content |-> content, trustAnnotations |-> trustAnnotations]

\* buildTrustAnnotations (index.ts 162-168)
buildTrustAnnotations(verification) ==
    LET vs == MapValues(verification.stepVerifications)
    IN  [i \in DOMAIN vs |->
            [source |-> vs[i].stepId, confidence |-> vs[i].confidence,
             caveat |-> vs[i].caveat]]

\* the texts the Reasoner may answer generateResponse with
ExecutorReplies == {"answer", "Please confirm to proceed."}

\* isActionResponse: the lowercased content includes an action keyword
isActionResponse(content) == content = "Please confirm to proceed."

\* a variant that lets the loop run while iterations <= maxIterations
LoopContinues_inclusive(iter) == iter <= maxIterations

\* while (iterations < this.config.maxIterations)
LoopContinues(iter) == iter < maxIterations

\* The head of the while loop (71-75) reached with iterations = iter after
\* the phases entered: the next Planning call is made, or the bound is
\* reached and run returns the degraded output (127-132).
EnterLoop(iter, entered) ==
    IF LoopContinues(iter)
    THEN /\ iterations' = iter + 1
         /\ phases' = Append(entered, "Planning")
         /\ agentPc' = "planning"
         /\ UNCHANGED runOutput
    ELSE /\ iterations' = iter
         /\ phases' = entered
         /\ agentPc' = "returned"
         /\ runOutput' = Some(AgentOutput("response", DegradedMessage, <<>>))

\* run(userMessage) is called (64-75); the default configuration has no
\* ToolExecutor server to connect to, so initialize does not await
AgentRun ==
    /\ agentPc = "idle"
    /\ messagesBefore' = messages
    /\ messages' = addUserMessage(messages, UserMessage)
    /\ EnterLoop(0, phases)
    /\ UNCHANGED <<schedVars, memVars, gateVars, synthVars, verifyVars, planReply, rounds,
                   sovVars, readVars>>

\* a variant that runs the follow-up plan of the last verification, when
\* there is one, in place of the plan of the Planning call
SynthesizedSteps_followUp(plan) ==
    IF verifyResult # Null /\ verifyResult[1].followUpPlan # Null
    THEN verifyResult[1].followUpPlan[1]
    ELSE plan.steps

\* the steps synthesize hands to buildExecutionLevels and executeStep: those
\* of the plan the Planning call of this iteration returned (agent.ts 78, 93)
SynthesizedSteps(plan) == plan.steps

\* the Planning call returns a plan (75-93): a direct response ends the
\* turn, otherwise synthesize is called
AgentPlanned ==
    /\ agentPc = "planning"
    /\ \E reply \in PlannerReplies :
        LET plan == PlanOf(reply) IN
          /\ planReply' = Some(reply)
          /\ IF HasDirectResponse(plan)
             THEN /\ runOutput' = Some(AgentOutput("response", plan.directResponse[1], <<>>))
                  /\ messages' = trimHistory(addAssistantMessage(messages,
                                                                 plan.directResponse[1]))
                  /\ agentPc' = "returned"
                  /\ UNCHANGED <<schedVars, synthVars, phases>>
             ELSE /\ steps' = SynthesizedSteps(plan)
                  /\ levels' = <<>>
                  /\ completed' = {}
                  /\ remaining' = <<>>
                  /\ fallback' = FALSE
                  /\ schedPc' = "entry"
                  /\ synthPc' = "levels"
                  /\ levelIdx' = 0
                  /\ stepRun' = [id \in IdsOf(SynthesizedSteps(plan)) |-> IdleRun]
                  /\ stepResults' = <<>>
                  /\ dispatched' = [id \in IdsOf(SynthesizedSteps(plan)) |-> 0]
                  /\ aggregatedContext' = Null
                  /\ phases' = Append(phases, "Synthesizing")
                  /\ agentPc' = "synthesizing"
                  /\ UNCHANGED <<messages, runOutput>>
    /\ UNCHANGED <<memVars, gateVars, verifyVars, iterations, messagesBefore, rounds, sovVars,
                   readVars>>

\* the Planning call raises: run raises
AgentPlannerRaises ==
    /\ agentPc = "planning"
    /\ agentPc' = "raised"
    /\ UNCHANGED <<schedVars, memVars, gateVars, synthVars, verifyVars, iterations,
                   messages, messagesBefore, rounds, runOutput, phases, planReply, sovVars, readVars>>

\* the record of an iteration whose verify call has just been made
RoundStarted ==
    [reply |-> planReply, results |-> stepResults, callsBefore |-> Len(calls),
     callsAfter |-> Len(calls), verification |-> Null, cache |-> <<>>,
     endedAt |-> now]

\* the record of the iteration whose verify call has just returned
RoundVerified(round) ==
    [round EXCEPT !.callsAfter = Len(calls), !.verification = verifyResult,
                  !.cache = trustCache, !.endedAt = now]

\* synthesize returns (93-101): verify is called
AgentSynthesized ==
    /\ agentPc = "synthesizing"
    /\ synthPc = "done"
    /\ verifyPc' = "entry"
    /\ pending' = <<>>
    /\ stepVerifications' = <<>>
    /\ verifyResult' = Null
    /\ caveatReply' = Null
    /\ rounds' = Append(rounds, RoundStarted)
    /\ phases' = Append(phases, "Verifying")
    /\ agentPc' = "verifying"
    /\ UNCHANGED <<schedVars, memVars, gateVars, synthVars, originWallet, reasonerCalls,
                   iterations, messages, messagesBefore, runOutput, planReply, sovVars,
                   readVars>>

\* synthesize raises: run raises
AgentSynthRaises ==
    /\ agentPc = "synthesizing"
    /\ synthPc \in {"raised_in_loop", "raised_in_aggregate"}
    /\ agentPc' = "raised"
    /\ UNCHANGED <<schedVars, memVars, gateVars, synthVars, verifyVars, iterations,
                   messages, messagesBefore, rounds, runOutput, phases, planReply, sovVars, readVars>>

\* a variant in which execute never signals follow_up
SignalsFollowUp_never(verification) == FALSE

\* execute signals follow_up (index.ts 80-86)
SignalsFollowUp(verification) ==
    verification.overallPassed = FALSE /\ verification.followUpPlan # Null

\* the follow_up output of execute (index.ts 81-85), its content without the
\* joined caveats
FollowUpOutput(verification) ==
    [type |-> "follow_up",
     content |-> "Some data could not be verified through the trust graph.",
     nextPlan |-> verification.followUpPlan[1]]

\* a variant that takes no output for a follow_up
IsFollowUp_never(output) == FALSE

\* a variant that takes every output for a follow_up
IsFollowUp_always(output) == TRUE

\* if (output.type === 'follow_up')
IsFollowUp(output) == output.type = "follow_up"

\* What run does with the output of execute (110-125) after the phases
\* entered: a follow_up goes to the head of the loop, any other output is
\* stored in memory and returned.
HandleOutput(output, entered) ==
    IF IsFollowUp(output)
    THEN /\ EnterLoop(iterations, entered)
         /\ UNCHANGED messages
    ELSE /\ runOutput' = Some(output)
         /\ messages' = trimHistory(addAssistantMessage(messages, output.content))
         /\ agentPc' = "returned"
         /\ phases' = entered
         /\ UNCHANGED iterations

\* verify returns (96-115): execute is called. It signals follow_up without
\* a Reasoner call, or it asks the Reasoner for the response. caveats.join
\* and caveats.length fail on a caveats that is undefined.
AgentVerified ==
    /\ agentPc = "verifying"
    /\ verifyPc = "returned"
    /\ rounds' = [rounds EXCEPT ![Len(rounds)] = RoundVerified(@)]
    /\ LET verification == verifyResult[1]
           entered == Append(phases, "Executing")
       IN  IF verification.caveats = Undefined
           THEN /\ agentPc' = "raised"
                /\ phases' = entered
                /\ UNCHANGED <<iterations, runOutput, messages>>
           ELSE IF SignalsFollowUp(verification)
           THEN HandleOutput(FollowUpOutput(verification), entered)
           ELSE /\ agentPc' = "executing"
                /\ phases' = entered
                /\ UNCHANGED <<iterations, runOutput, messages>>
    /\ UNCHANGED <<schedVars, memVars, gateVars, synthVars, verifyVars, messagesBefore,
                   planReply, sovVars, readVars>>

\* verify raises: run raises
AgentVerifyRaises ==
    /\ agentPc = "verifying"
    /\ verifyPc = "raised"
    /\ agentPc' = "raised"
    /\ UNCHANGED <<schedVars, memVars, gateVars, synthVars, verifyVars, iterations,
                   messages, messagesBefore, rounds, runOutput, phases, planReply, sovVars, readVars>>

\* generateResponse returns: execute returns a response or an action
\* (index.ts 88-115) and run handles it
AgentExecuted ==
    /\ agentPc = "executing"
    /\ \E content \in ExecutorReplies :
          HandleOutput(AgentOutput(IF isActionResponse(content) THEN "action"
                                   ELSE "response", content,
                                   buildTrustAnnotations(verifyResult[1])), phases)
    /\ UNCHANGED <<schedVars, memVars, gateVars, synthVars, verifyVars, messagesBefore, rounds,
                   planReply, sovVars, readVars>>

\* the Reasoner call of generateResponse raises: run raises
AgentExecutorRaises ==
    /\ agentPc = "executing"
    /\ agentPc' = "raised"
    /\ UNCHANGED <<schedVars, memVars, gateVars, synthVars, verifyVars, iterations,
                   messages, messagesBefore, rounds, runOutput, phases, planReply, sovVars, readVars>>

-----------------------------------------------------------------------------
(* Specification of the scheduler alone *)

InitLevels ==
    /\ \E stepList \in SchedulerInputs : SchedInit(stepList)
    /\ MemInit
    /\ GateInit
    /\ SynthInit("idle")
    /\ VerifyInit("idle", Null) /\ AgentInit("idle", <<>>) /\ SovInit /\ ReadInit

NextLevels ==
    \/ BuildLevelsEnter
    \/ BuildLevelsPass
    \/ BuildLevelsReturn

SpecLevels == InitLevels /\ [][NextLevels]_vars

\* buildExecutionLevels is synchronous code: once called it runs each
\* statement in turn until it returns
SpecLevelsFair == InitLevels /\ [][NextLevels]_vars /\ WF_vars(NextLevels)

-----------------------------------------------------------------------------
(* Specification of TrustGate over one SessionMemory *)

InitGate ==
    /\ SchedInit(<<>>) /\ MemInit /\ GateInit /\ SynthInit("idle")
    /\ VerifyInit("idle", Null) /\ AgentInit("idle", <<>>) /\ SovInit /\ ReadInit

\* the clock advances once the first call was issued: assessWallet compares
\* Date.now() with expiresAt = (an earlier Date.now()) + TTL only, so an
\* advance before the first call is a shift of the origin of time
GateTick ==
    /\ Len(calls) > 0
    /\ Tick

NextGate ==
    \/ GateTick
    \/ GateCall
    \/ OracleResolves
    \/ OracleRejects

SpecGate == InitGate /\ [][NextGate]_vars

-----------------------------------------------------------------------------
(* Specification of one synthesize call on a fresh SessionMemory *)

InitSynth ==
    /\ \E n \in 0..MaxSynthSteps :
          \E E \in SubsetsUpTo(SynthEdges(n), MaxSynthEdges),
             shape \in [1..n -> StepShapes] :
              SchedInit(SynthPlan(n, E, shape))
    /\ MemInit
    /\ GateInit
    /\ SynthInit("levels")
    /\ VerifyInit("idle", Null) /\ AgentInit("idle", <<>>) /\ SovInit /\ ReadInit

NextSynth ==
    \/ BuildLevelsEnter
    \/ BuildLevelsPass
    \/ BuildLevelsReturn
    \/ SynthLevelsBuilt
    \/ SynthLaunchLevel
    \/ ToolResolves
    \/ ToolRejects
    \/ OracleResolves
    \/ OracleRejects
    \/ SynthRecordLevel
    \/ SynthAggregateReturns
    \/ SynthAggregateRaises

SpecSynth == InitSynth /\ [][NextSynth]_vars

-----------------------------------------------------------------------------
(* Specification of one verify call on a fresh SessionMemory *)

\* the plan of n steps of the given shapes, without dependencies
VerifyPlan(n, shape) ==
    [i \in 1..n |->
        PlanStep(i, shape[i].toolName, StepInput("O", "A", 0), {},
                 shape[i].requiresVerification)]

\* a synthesis.stepResults for the plan: res[i] is what it holds for step i
VerifyStepResultsMap(plan, res) ==
    [id \in {i \in DOMAIN plan : res[i].kind # "absent"} |->
        IF res[id].kind = "failed"
        THEN StepResult(id, plan[id].toolName, Null, Some(<<"message", "request failed">>))
        ELSE StepResult(id, plan[id].toolName, Some(res[id].output), Null)]

InitVerify ==
    /\ MemInit
    /\ GateInit
    /\ \E n \in 0..MaxVerifySteps :
          \E shape \in [1..n -> VerifyShapes] :
            /\ SchedInit(VerifyPlan(n, shape))
            /\ \E res \in [1..n -> VerifyResultChoices] :
                  stepResults = VerifyStepResultsMap(VerifyPlan(n, shape), res)
    /\ synthPc = "done"
    /\ levelIdx = 0
    /\ stepRun = [id \in IdsOf(steps) |-> IdleRun]
    /\ dispatched = [id \in IdsOf(steps) |-> 0]
    /\ aggregatedContext = Some("summary")
    /\ \E origin \in OriginWallets : VerifyInit("entry", origin)
    /\ AgentInit("idle", <<>>) /\ SovInit /\ ReadInit

NextVerify ==
    \/ VerifyEnter
    \/ VerifyAssess
    \/ OracleResolves
    \/ OracleRejects
    \/ VerifyAssessReturns
    \/ VerifyAssessRaises
    \/ VerifyCaveats
    \/ VerifyReasonerReplies
    \/ VerifyReasonerRaises

SpecVerify == InitVerify /\ [][NextVerify]_vars

-----------------------------------------------------------------------------
(* Specification of verify from the end of its loops (lines 79-91) *)

\* what TrustOracle.assess may have resolved with for a retained
\* verification: the answers above, and None reported with the path explored
RetainedAnswers ==
    OracleAnswers("O", "A")
    \cup {[confidence |-> "None", trustWeight |-> 0, path |-> <<"O", "A">>, depth |-> 1]}

\* stepVerifications with the steps 1..n retained, in this order
RetainedMap(n, answer) ==
    [i \in 1..n |-> [key |-> i, value |-> BuildVerification(i, answer[i])]]

InitVerifyTail ==
    /\ SchedInit(<<>>) /\ MemInit /\ GateInit /\ SynthInit("done")
    /\ AgentInit("idle", <<>>) /\ SovInit /\ ReadInit
    /\ verifyPc = "loop"
    /\ originWallet = Some("O")
    /\ pending = <<>>
    /\ \E n \in 0..MaxRetained :
          \E answer \in [1..n -> RetainedAnswers] :
              stepVerifications = RetainedMap(n, answer)
    /\ verifyResult = Null
    /\ reasonerCalls = 0
    /\ caveatReply = Null

NextVerifyTail ==
    \/ VerifyCaveats
    \/ VerifyReasonerReplies
    \/ VerifyReasonerRaises

SpecVerifyTail == InitVerifyTail /\ [][NextVerifyTail]_vars

-----------------------------------------------------------------------------
(* Specification of Planner.plan followed by buildExecutionLevels *)

\* the names of the tool_use blocks of a reply: identity tools, dependent
\* tools, and a tool that is neither
PlanToolNames ==
    {"sovereign_read", "trust_query", "lattice_assess", "vault_disclose", "vault_read"}

\* the replies to a Planning call: a text-only one, and one with up to
\* MaxPlanTools tool_use blocks in any order
PlanningReplies ==
    {[stop_reason |-> "end_turn", text |-> "hello", tools |-> <<>>]} \cup
    UNION {{[stop_reason |-> "tool_use", text |-> "", tools |-> tools]
                : tools \in [1..n -> PlanToolNames]}
            : n \in 0..MaxPlanTools}

\* Planner.plan returns the plan of a reply (planner.ts 79-115) and
\* synthesize hands its steps to buildExecutionLevels (synthesizer.ts 45)
PlannerPlans ==
    /\ planReply = Null
    /\ schedPc = "done"
    /\ \E reply \in PlanningReplies :
          /\ planReply' = Some(reply)
          /\ steps' = PlanOf(reply).steps
    /\ schedPc' = "entry"
    /\ UNCHANGED <<levels, completed, remaining, fallback, memVars, gateVars,
                   synthVars, verifyVars, agentPc, iterations, messages,
                   messagesBefore, rounds, runOutput, phases, sovVars, readVars>>

InitPlanner ==
    /\ steps = <<>>
    /\ levels = <<>>
    /\ completed = {}
    /\ remaining = <<>>
    /\ fallback = FALSE
    /\ schedPc = "done"
    /\ MemInit
    /\ GateInit
    /\ SynthInit("idle")
    /\ VerifyInit("idle", Null) /\ AgentInit("idle", <<>>) /\ SovInit /\ ReadInit

NextPlanner ==
    \/ PlannerPlans
    \/ BuildLevelsEnter
    \/ BuildLevelsPass
    \/ BuildLevelsReturn

SpecPlanner == InitPlanner /\ [][NextPlanner]_vars

-----------------------------------------------------------------------------
(* Specification of one turn of the agent *)

InitAgent ==
    /\ steps = <<>>
    /\ levels = <<>>
    /\ completed = {}
    /\ remaining = <<>>
    /\ fallback = FALSE
    /\ schedPc = "done"
    /\ MemInit
    /\ GateInit
    /\ SynthInit("idle")
    /\ \E origin \in OriginWallets : VerifyInit("idle", origin)
    /\ \E history \in InitialHistories : AgentInit("idle", history)
    /\ SovInit /\ ReadInit

NextAgent ==
    \/ AgentRun
    \/ AgentPlanned
    \/ AgentPlannerRaises
    \/ BuildLevelsEnter
    \/ BuildLevelsPass
    \/ BuildLevelsReturn
    \/ SynthLevelsBuilt
    \/ SynthLaunchLevel
    \/ ToolResolves
    \/ ToolRejects
    \/ OracleResolves
    \/ OracleRejects
    \/ SynthRecordLevel
    \/ SynthAggregateReturns
    \/ SynthAggregateRaises
    \/ AgentSynthesized
    \/ AgentSynthRaises
    \/ VerifyEnter
    \/ VerifyAssess
    \/ VerifyAssessReturns
    \/ VerifyAssessRaises
    \/ VerifyCaveats
    \/ VerifyReasonerReplies
    \/ VerifyReasonerRaises
    \/ AgentVerified
    \/ AgentVerifyRaises
    \/ AgentExecuted
    \/ AgentExecutorRaises

SpecAgent == InitAgent /\ [][NextAgent]_vars

-----------------------------------------------------------------------------
(* Specification of one turn of the agent while the clock advances *)

\* the clock advances while a Planning call is awaited; the other awaits of
\* the turn are taken to return within the same millisecond
PlanningTick ==
    /\ agentPc = "planning"
    /\ Tick

NextAgentClock ==
    \/ NextAgent
    \/ PlanningTick

SpecAgentClock == InitAgent /\ [][NextAgentClock]_vars

-----------------------------------------------------------------------------
(* Specification of the score lookups on one SessionMemory *)

InitSovereign ==
    /\ SchedInit(<<>>) /\ MemInit /\ GateInit /\ SynthInit("idle")
    /\ VerifyInit("idle", Null) /\ AgentInit("idle", <<>>) /\ SovInit /\ ReadInit

NextSovereign == Tick \/ SovLookup \/ SovReadResolves \/ SovReadRejects

SpecSovereign == InitSovereign /\ [][NextSovereign]_vars

-----------------------------------------------------------------------------
(* Specification of the cache reads and writes on one SessionMemory *)

InitCaches ==
    /\ SchedInit(<<>>) /\ MemInit /\ GateInit /\ SynthInit("idle")
    /\ VerifyInit("idle", Null) /\ AgentInit("idle", <<>>) /\ SovInit /\ ReadInit

NextCaches ==
    \/ Tick
    \/ ReadTrust
    \/ WriteTrust
    \/ ReadSovereign
    \/ WriteSovereign

SpecCaches == InitCaches /\ [][NextCaches]_vars

-----------------------------------------------------------------------------
(* Claims about buildExecutionLevels *)

\* the ids of the returned levels, concatenated
RECURSIVE ConcatIds(_)
ConcatIds(lv) ==
    IF Len(lv) = 0 THEN <<>>
    ELSE [i \in DOMAIN lv[1] |-> lv[1][i].id] \o ConcatIds(Tail(lv))

Occurrences(s, x) == Cardinality({i \in DOMAIN s : s[i] = x})

LevelIds(k) == IdsOf(levels[k])

\* the index of the fallback level, 0 when the fallback branch was not taken
FallbackIndex == IF fallback THEN Len(levels) ELSE 0

\* C1: the returned levels, concatenated, hold every step id exactly once
\* and no other id, also for a plan with a cycle, a self-dependency or a
\* dangling dependsOn id.
C1_LevelsArePermutation ==
    schedPc = "done" =>
        LET ids == ConcatIds(levels)
        IN  /\ Len(ids) = Len(steps)
            /\ Range(ids) = IdsOf(steps)
            /\ \A i \in DOMAIN steps : Occurrences(ids, steps[i].id) = 1

C1_Witness ==
    /\ schedPc = "done"
    /\ fallback
    /\ Len(levels) >= 2
    /\ Len(steps) = MaxSteps
    /\ \E i \in DOMAIN steps : DanglingId(Len(steps)) \in steps[i].dependsOn
    /\ \E i \in DOMAIN steps : steps[i].id \in steps[i].dependsOn

\* the dependency is a step that can reach itself along dependsOn edges
RECURSIVE ReachableFrom(_, _)
ReachableFrom(frontier, k) ==
    IF k = 0 THEN frontier
    ELSE ReachableFrom(
            frontier \cup UNION {steps[i].dependsOn :
                                    i \in {j \in DOMAIN steps : steps[j].id \in frontier}},
            k - 1)

OnCycle(dep) ==
    \E i \in DOMAIN steps :
        /\ steps[i].id = dep
        /\ dep \in ReachableFrom(steps[i].dependsOn, Len(steps))

Dangling(dep) == dep \notin IdsOf(steps)

\* C2: every step with a nonempty dependsOn has all its dependencies in
\* levels of strictly smaller index than its own, or sits in the final
\* fallback level; and a step sits in the fallback level only if one of its
\* dependencies is on a cycle, is dangling, or itself sits in the fallback
\* level.
C2_DependenciesEarlierOrFallback ==
    schedPc = "done" =>
        /\ \A k \in DOMAIN levels : \A i \in DOMAIN levels[k] :
              levels[k][i].dependsOn # {} =>
                  \/ \A dep \in levels[k][i].dependsOn :
                        \E j \in 1..(k - 1) : dep \in LevelIds(j)
                  \/ k = FallbackIndex
        /\ fallback =>
              \A i \in DOMAIN levels[FallbackIndex] :
                  \E dep \in levels[FallbackIndex][i].dependsOn :
                      \/ OnCycle(dep)
                      \/ Dangling(dep)
                      \/ dep \in LevelIds(FallbackIndex)

C2_Witness ==
    /\ schedPc = "done"
    /\ fallback
    /\ Len(levels) = 3
    /\ \E i \in DOMAIN levels[2] : levels[2][i].dependsOn # {}
    /\ \E i \in DOMAIN levels[3] : \E dep \in levels[3][i].dependsOn : OnCycle(dep)

\* C3 as stated: in every level, the fallback level included, no step has in
\* its dependsOn the id of another step of the same level.  A dependency
\* cycle refutes it: both steps of the cycle land in the fallback level.
C3_Original_AllLevelsIndependent ==
    schedPc = "done" =>
        \A k \in DOMAIN levels : \A i, j \in DOMAIN levels[k] :
            i # j => levels[k][j].id \notin levels[k][i].dependsOn

\* C3 amended: in every level other than the fallback level, no step has in
\* its dependsOn the id of a step of the same level.
C3_NonFallbackLevelsIndependent ==
    schedPc = "done" =>
        \A k \in DOMAIN levels : k # FallbackIndex =>
            \A i, j \in DOMAIN levels[k] :
                levels[k][j].id \notin levels[k][i].dependsOn

C3_Witness ==
    /\ schedPc = "done"
    /\ Len(levels) >= 2
    /\ \E k \in DOMAIN levels :
          /\ k # FallbackIndex
          /\ Len(levels[k]) >= 2
          /\ \E i \in DOMAIN levels[k] : levels[k][i].dependsOn # {}

-----------------------------------------------------------------------------
(* Claims about TrustGate and the trust cache *)

CallsFor(key) == {i \in DOMAIN calls : calls[i].key = key}

\* C6: of two assessWallet calls with the same (origin, target, dimension),
\* the only two for that key, the second issued after the first returned
\* and no later than the expiry the first wrote: the second returns the
\* payload of the first under its own stepId, and TrustOracle.assess was
\* invoked exactly once for the two.
C6_CacheIdempotence ==
    \A i, j \in DOMAIN calls :
        ( /\ i # j
          /\ calls[i].key = calls[j].key
          /\ CallsFor(calls[i].key) = {i, j}
          /\ calls[i].state = "returned"
          /\ i \in calls[j].settledBefore
          /\ calls[j].issuedAt <= calls[i].settledAt + TRUST_CACHE_TTL_MS )
        => /\ calls[j].state = "returned"
           /\ Payload(calls[j].result[1]) = Payload(calls[i].result[1])
           /\ calls[j].result[1].stepId = calls[j].stepId
           /\ calls[i].invoked + calls[j].invoked = 1

C6_Witness ==
    \E i, j \in DOMAIN calls :
        /\ i # j
        /\ calls[i].key = calls[j].key
        /\ calls[i].state = "returned"
        /\ i \in calls[j].settledBefore
        /\ calls[j].issuedAt = calls[i].settledAt + TRUST_CACHE_TTL_MS
        /\ calls[j].state = "returned"
        /\ calls[j].stepId # calls[i].stepId
        /\ calls[i].result[1].caveat # NoCaveat

\* call i returns in this step
ReturnsNow(i) ==
    /\ calls'[i].state = "returned"
    /\ i \in DOMAIN calls => calls[i].state = "awaiting"

\* call i ends in this step, by returning or by raising
EndsNow(i) ==
    /\ calls'[i].state # "awaiting"
    /\ i \in DOMAIN calls => calls[i].state = "awaiting"

\* the call invoked TrustOracle.assess once and the cache holds, for its
\* key, the new assessment with expiresAt = write time + TTL
RefreshedBy(i) ==
    /\ calls'[i].invoked = 1
    /\ calls'[i].state = "returned"
    /\ calls'[i].key \in DOMAIN trustCache'
    /\ trustCache'[calls'[i].key] =
          [assessment |-> calls'[i].result[1],
           expiresAt |-> now + TRUST_CACHE_TTL_MS]

C9_ConfidenceToAction ==
    /\ \A i \in DOMAIN calls : calls[i].state = "returned" =>
          LET v == calls[i].result[1]
          IN  /\ v.confidence \in Confidences
              /\ v.action \in PresentationActions
              /\ v.confidence = "High" => v.action = "present" /\ v.caveat = NoCaveat
              /\ v.confidence = "Medium" =>
                    v.action = "present_with_caveat" /\ v.caveat # NoCaveat
              /\ v.confidence = "Low" => v.action = "warn" /\ v.caveat # NoCaveat
              /\ v.confidence = "None" => v.action = "omit" /\ v.caveat # NoCaveat
    /\ \A i, j \in DOMAIN calls :
          ( /\ calls[i].state = "returned"
            /\ calls[j].state = "returned"
            /\ calls[i].result[1].confidence = calls[j].result[1].confidence )
          => calls[i].result[1].action = calls[j].result[1].action

C9_Witness ==
    \E i, j \in DOMAIN calls :
        /\ calls[i].state = "returned" /\ ~calls[i].hit
        /\ calls[j].state = "returned" /\ ~calls[j].hit
        /\ calls[i].result[1].confidence = "Low"
        /\ calls[i].result[1].action = "warn"
        /\ calls[j].result[1].confidence = "Medium"
        /\ calls[j].result[1].action = "present_with_caveat"

-----------------------------------------------------------------------------
(* Claims about Synthesizer.synthesize *)

\* executeStep has been called for the step
Started(id) == stepRun[id].state # "idle"

\* the step has finished and its StepResult is in stepResults
Recorded(id) ==
    /\ stepRun[id].state = "settled"
    /\ id \in DOMAIN stepResults
    /\ stepResults[id] = stepRun[id].result[1]

\* C4: during synthesize no step of a level has started unless every step of
\* every earlier level has finished, with a success or a failure, and its
\* StepResult is recorded in stepResults; levels run in index order.
C4_LevelStartsAfterEarlierLevelsRecorded ==
    schedPc = "done" =>
        \A k \in DOMAIN levels : \A i \in DOMAIN levels[k] :
            Started(levels[k][i].id) =>
                \A j \in 1..(k - 1) : \A m \in DOMAIN levels[j] :
                    Recorded(levels[j][m].id)

\* a step of the second level is running after a first level of two steps, one
\* of which failed and one of which succeeded
C4_Witness ==
    /\ schedPc = "done"
    /\ Len(levels) >= 2
    /\ Len(levels[1]) >= 2
    /\ \E i \in DOMAIN levels[2] : stepRun[levels[2][i].id].state = "awaiting"
    /\ \E i, m \in DOMAIN levels[1] :
          /\ stepRun[levels[1][i].id].outcome = "failed"
          /\ stepRun[levels[1][m].id].outcome = "ok"

LoopEnded == synthPc \in {"aggregate", "done", "raised_in_aggregate"}

\* C5: a failure of a tool or of a built-in handler in a step is captured as
\* text in the error of that step's StepResult and never leaves executeStep:
\* the level loop never raises, and when it ends every step of the plan has
\* been executed once and stepResults holds one StepResult for each step id.
C5_FailureCapturedAndIsolated ==
    /\ synthPc # "raised_in_loop"
    /\ \A id \in DOMAIN stepRun :
          stepRun[id].outcome = "failed" =>
              /\ stepRun[id].state = "settled"
              /\ stepRun[id].result[1].stepId = id
              /\ stepRun[id].result[1].output = Null
              /\ stepRun[id].result[1].error # Null
    /\ LoopEnded =>
          /\ DOMAIN stepResults = IdsOf(steps)
          /\ \A id \in IdsOf(steps) :
                /\ dispatched[id] = 1
                /\ Recorded(id)
                /\ stepResults[id].stepId = id

\* the loop has ended on a plan in which a step failed, another step of its
\* level succeeded and a step of a later level was executed
C5_Witness ==
    /\ LoopEnded
    /\ Len(levels) >= 2
    /\ \E i, m \in DOMAIN levels[1] :
          /\ stepResults[levels[1][i].id].error # Null
          /\ stepResults[levels[1][m].id].error = Null
    /\ \E i \in DOMAIN levels[2] : Recorded(levels[2][i].id)

\* the level of the step a call comes from
LevelOfStep(id) ==
    CHOOSE k \in DOMAIN levels : \E i \in DOMAIN levels[k] : levels[k][i].id = id

\* C7: two lattice_assess steps of one level with the same (origin, target,
\* dimension), on a cache with no live entry for the key, invoke
\* TrustOracle.assess at most once between them.
C7_OneOracleCallPerKeyAndLevel ==
    schedPc = "done" =>
        \A i, j \in DOMAIN calls :
            ( /\ i < j
              /\ calls[i].key = calls[j].key
              /\ LevelOfStep(calls[i].stepId) = LevelOfStep(calls[j].stepId) )
            => calls[i].invoked + calls[j].invoked <= 1

-----------------------------------------------------------------------------
(* Claims about Verifier.verify *)

\* the step qualifies for verification
Qualifies(step) ==
    step.requiresVerification /\ step.toolName \in VERIFICATION_REQUIRED_TOOLS

\* originIdentity is absent or empty
NoOrigin == originWallet = Null \/ originWallet = Some("")

\* C10: a verify call with an absent or empty originIdentity, or on a plan
\* without a qualifying step, returns overallPassed = true, no caveats, no
\* follow-up plan and an empty stepVerifications, and calls neither the
\* TrustGate nor the Reasoner.
C10_VerifyFailsOpen ==
    ( /\ verifyPc \notin {"idle", "entry"}
      /\ NoOrigin \/ \A i \in DOMAIN steps : ~Qualifies(steps[i]) )
    => /\ verifyPc = "returned"
       /\ verifyResult # Null
       /\ verifyResult[1].overallPassed = TRUE
       /\ verifyResult[1].caveats = Some(<<>>)
       /\ verifyResult[1].followUpPlan = Null
       /\ verifyResult[1].stepVerifications = <<>>
       /\ Len(calls) = 0
       /\ reasonerCalls = 0

\* verify has returned for an empty originIdentity on a plan with a
\* qualifying step whose output names an identity
C10_Witness ==
    /\ verifyPc = "returned"
    /\ originWallet = Some("")
    /\ \E i \in DOMAIN steps :
          /\ Qualifies(steps[i])
          /\ steps[i].id \in DOMAIN stepResults
          /\ stepResults[steps[i].id].output = Some(<<"A">>)

\* C11: in every VerificationResult verify returns, overallPassed is false
\* exactly when some StepVerification of stepVerifications has action omit,
\* and followUpPlan is present exactly when overallPassed is false.
C11_PassedIffNothingOmitted ==
    verifyResult # Null =>
        LET r == verifyResult[1]
            omitted == \E i \in DOMAIN r.stepVerifications :
                          r.stepVerifications[i].value.action = "omit"
        IN  /\ (r.overallPassed = FALSE) <=> omitted
            /\ (r.followUpPlan # Null) <=> (r.overallPassed = FALSE)

\* verify has returned two verifications, the first kept and the second omitted
C11_Witness ==
    /\ verifyResult # Null
    /\ Len(verifyResult[1].stepVerifications) = 2
    /\ verifyResult[1].stepVerifications[1].value.action = "warn"
    /\ verifyResult[1].stepVerifications[2].value.action = "omit"
    /\ verifyResult[1].overallPassed = FALSE

\* the identities other than the origin in the output of a step
NonOriginIdentities(id) ==
    {stepResults[id].output[1][k] : k \in DOMAIN stepResults[id].output[1]}
        \cap ({"A", "B", "X"} \ {originWallet[1]})

\* a qualifying, error-free step whose output holds one non-origin identity
OneIdentityStep(i) ==
    /\ Qualifies(steps[i])
    /\ steps[i].id \in DOMAIN stepResults
    /\ stepResults[steps[i].id].error = Null
    /\ Cardinality(NonOriginIdentities(steps[i].id)) = 1

\* the verification the returned map holds for a step
ReturnedVerification(id) ==
    LET map == verifyResult[1].stepVerifications
    IN  map[CHOOSE k \in DOMAIN map : map[k].key = id].value

\* verify has returned on a known origin and a plan of two steps S1 = steps[a]
\* and S2 = steps[b], assessed None and High
NoneAndHigh(a, b) ==
    /\ verifyResult # Null
    /\ originWallet = Some("O")
    /\ Len(steps) = 2
    /\ a # b
    /\ OneIdentityStep(a)
    /\ OneIdentityStep(b)
    /\ {verifyResult[1].stepVerifications[k].key :
           k \in DOMAIN verifyResult[1].stepVerifications} = {steps[a].id, steps[b].id}
    /\ ReturnedVerification(steps[a].id).confidence = "None"
    /\ ReturnedVerification(steps[b].id).confidence = "High"

\* C12: with a known origin and two qualifying error-free steps, S1 with one
\* non-origin identity assessed None and S2 with one assessed High, verify
\* returns overallPassed = false, a followUpPlan of one step whose origin is
\* the first element of S1's path (the empty text if the path is empty) and
\* a nonempty caveats list, whatever the Reasoner replies.
C12_NoneAndHighGiveFollowUpAndCaveats ==
    \A a, b \in DOMAIN steps :
        NoneAndHigh(a, b) =>
            LET r == verifyResult[1]
                path == ReturnedVerification(steps[a].id).path
            IN  /\ r.overallPassed = FALSE
                /\ r.followUpPlan # Null
                /\ Len(r.followUpPlan[1]) = 1
                /\ r.followUpPlan[1][1].input.origin =
                      (IF Len(path) > 0 THEN path[1] ELSE "")
                /\ r.caveats # Undefined
                /\ Len(r.caveats[1]) > 0

-----------------------------------------------------------------------------
(* Claims about OraculoAgent.run *)

\* the phases of i full iterations
FullRounds(i) ==
    [k \in 1..(4 * i) |->
        <<"Planning", "Synthesizing", "Verifying", "Executing">>[((k - 1) % 4) + 1]]

\* how often the turn has entered Planning
PlanningEntries == Cardinality({k \in DOMAIN phases : phases[k] = "Planning"})

\* C13: when the Reasoner answers the first Planning call of a turn with
\* text only, run returns a response with exactly that text and no trust
\* annotations after one Planning call, with no other phase, no tool call
\* and no TrustOracle call.
C13_TextOnlyReplyIsReturned ==
    ( /\ iterations = 1
      /\ planReply # Null
      /\ planReply[1].tools = <<>> )
    => /\ agentPc = "returned"
       /\ runOutput = Some(AgentOutput("response", planReply[1].text, <<>>))
       /\ phases = <<"Planning">>
       /\ Len(calls) = 0
       /\ \A id \in DOMAIN dispatched : dispatched[id] = 0

\* C14: when execute signals follow_up in the iteration that reaches
\* maxIterations, run returns at once, without raising and without another
\* Reasoner call, the response with the degraded message and no trust
\* annotations; Planning was entered maxIterations times.
C14_ExhaustionReturnsDegraded ==
    [][ ( /\ agentPc = "verifying"
          /\ agentPc' # "verifying"
          /\ verifyPc = "returned"
          /\ verifyResult[1].caveats # Undefined
          /\ SignalsFollowUp(verifyResult[1])
          /\ iterations = maxIterations )
        => /\ agentPc' = "returned"
           /\ runOutput' = Some(AgentOutput("response", DegradedMessage, <<>>))
           /\ phases' = FullRounds(maxIterations)
           /\ reasonerCalls' = reasonerCalls
           /\ calls' = calls ]_vars

\* run has returned the degraded output after maxIterations iterations
C14_Witness ==
    /\ agentPc = "returned"
    /\ iterations = maxIterations
    /\ phases = FullRounds(maxIterations)
    /\ runOutput = Some(AgentOutput("response", DegradedMessage, <<>>))

\* C15: after every run call that returns, the last message of the memory is
\* an assistant message holding the returned text.
C15_ReturnedTextIsLastMessage ==
    agentPc = "returned" =>
        /\ Len(messages) > 0
        /\ messages[Len(messages)] = Message("assistant", runOutput[1].content)

\* C16: every output run returns is a response or an action, never a
\* follow_up.
C16_NeverReturnsFollowUp ==
    /\ agentPc = "returned" => runOutput # Null
    /\ runOutput # Null => runOutput[1].type \in {"response", "action"}

\* run has returned its answer in the iteration after a follow_up
C16_Witness ==
    /\ agentPc = "returned"
    /\ iterations = 2
    /\ Len(phases) = 8
    /\ runOutput # Null
    /\ runOutput[1].type = "action"

\* C17: after a turn that was aborted by a raising call, the messages of the
\* memory are those it had when run was called.
C17_AbortedTurnLeavesNoMessage ==
    agentPc = "raised" => messages = messagesBefore

\* run raised because a Reasoner call raised, or because execute could not
\* read the caveats the Reasoner gave
ReasonerRaised ==
    \/ phases[Len(phases)] = "Planning"
    \/ phases[Len(phases)] = "Synthesizing" /\ synthPc = "raised_in_aggregate"
    \/ phases[Len(phases)] = "Verifying" /\ verifyPc = "raised" /\ Len(pending) = 0
    \/ phases[Len(phases)] = "Executing"

\* C18: whichever tool calls and TrustOracle calls fail while synthesizing
\* and verifying, run does not raise: it raises only if a Reasoner call did.
C18_RunAlwaysAnswers ==
    agentPc = "raised" => ReasonerRaised

\* the machines of synthesize and verify run only in their phase
PhaseOwnsItsCalls ==
    /\ synthPc \in {"levels", "launch", "await", "aggregate"} => agentPc = "synthesizing"
    /\ verifyPc \in {"entry", "loop", "awaitAssess", "awaitReasoner"} => agentPc = "verifying"
    /\ agentPc = "synthesizing" => phases[Len(phases)] = "Synthesizing"
    /\ agentPc = "verifying" => phases[Len(phases)] = "Verifying"
    /\ agentPc = "planning" => phases[Len(phases)] = "Planning"
    /\ agentPc = "executing" => phases[Len(phases)] = "Executing"

\* C19: in a turn the phases follow each other in the order Planning,
\* Synthesizing, Verifying, Executing; Planning is entered again only
\* right after an Executing phase that signalled follow_up, and at most
\* maxIterations times.
C19_PhaseOrder ==
    /\ \A k \in DOMAIN phases : phases[k] = FullRounds(iterations)[k]
    /\ PhaseOwnsItsCalls
    /\ PlanningEntries <= maxIterations
    /\ PlanningEntries = iterations
    /\ (Len(phases) > 1 /\ phases[Len(phases)] = "Planning") =>
          /\ phases[Len(phases) - 1] = "Executing"
          /\ verifyResult # Null
          /\ SignalsFollowUp(verifyResult[1])

\* Planning has been entered a second time
C19_Witness ==
    /\ agentPc = "planning"
    /\ phases = FullRounds(1) \o <<"Planning">>

-----------------------------------------------------------------------------
(* Score lookups: the empty result is not cached, a found record is *)

\* lookup i called readSovereignScores and returned what it resolved with
ReadReturned(i) ==
    /\ lookups[i].state = "returned"
    /\ lookups[i].invoked = 1

\* lookup j is the next lookup for the identity of lookup i: issued after i
\* returned, and every other lookup for that identity ended before i was
\* issued or was issued after j
NextLookup(i, j) ==
    /\ i # j
    /\ lookups[i].wallet = lookups[j].wallet
    /\ i \in lookups[j].settledBefore
    /\ \A k \in DOMAIN lookups \ {i, j} :
          lookups[k].wallet = lookups[i].wallet
          => (k \in lookups[i].settledBefore \/ k > j)

\* readSovereignScores resolves for lookup i in this step
ReadResolvesNow(i) ==
    /\ lookups[i].state = "awaiting"
    /\ lookups'[i].state = "returned"

\* the cache entry getSovereignScores writes for what lookup i returns
EntryOf(i) ==
    [scores |-> lookups'[i].result[1].scores, tier |-> lookups'[i].result[1].tier,
     expiresAt |-> now + TRUST_CACHE_TTL_MS]

\* C20: a getSovereignScores lookup for an identity without a record returns
\* the empty result (no scores, tier 0) and leaves the score cache as it
\* was, and the next lookup for that identity calls readSovereignScores
\* again; a lookup that finds a record leaves it in the score cache with
\* expiresAt = write time + TTL, and the next lookup for that identity, issued
\* no later than that expiresAt, returns the same scores and tier without
\* calling readSovereignScores.
C20_EmptyResultNotCachedFoundRecordCached ==
    /\ [](\A i, j \in DOMAIN lookups :
            (ReadReturned(i) /\ NextLookup(i, j))
            => IF lookups[i].found
               THEN lookups[j].issuedAt <= lookups[i].settledAt + TRUST_CACHE_TTL_MS
                    => /\ lookups[j].state = "returned"
                       /\ lookups[j].result = lookups[i].result
                       /\ lookups[j].invoked = 0
               ELSE /\ lookups[i].result = Some(EmptyScoreResult)
                    /\ lookups[j].invoked = 1)
    /\ [][\A i \in DOMAIN lookups :
            ReadResolvesNow(i)
            => IF lookups'[i].found
               THEN /\ lookups'[i].wallet \in DOMAIN sovereignCache'
                    /\ sovereignCache'[lookups'[i].wallet] = EntryOf(i)
               ELSE /\ lookups'[i].result = Some(EmptyScoreResult)
                    /\ sovereignCache' = sovereignCache]_vars

\* three lookups for one identity, one after the other: the first finds no
\* record, the second reads again and finds one, the third is issued at the
\* expiry the second wrote and is answered from the cache
C20_Witness ==
    \E i, j, k \in DOMAIN lookups :
        /\ ReadReturned(i) /\ ~lookups[i].found /\ NextLookup(i, j)
        /\ ReadReturned(j) /\ lookups[j].found /\ NextLookup(j, k)
        /\ lookups[k].issuedAt = lookups[j].settledAt + TRUST_CACHE_TTL_MS
        /\ lookups[k].invoked = 0
        /\ lookups[k].result = lookups[j].result

-----------------------------------------------------------------------------
(* Termination of buildExecutionLevels *)

\* two steps of the plan depend on each other
HasTwoCycle ==
    \E i, j \in DOMAIN steps :
        /\ i # j
        /\ steps[j].id \in steps[i].dependsOn
        /\ steps[i].id \in steps[j].dependsOn

\* one pass of the while loop: it takes at least one step out of `remaining`
\* and goes on, or it pushes what remains as the fallback level and stops
PassShrinksOrStops ==
    (schedPc = "while" /\ Len(remaining) > 0)
    => \/ /\ Len(remaining') < Len(remaining)
          /\ schedPc' = "while"
          /\ ~fallback'
       \/ /\ levels' = Append(levels, remaining)
          /\ fallback'
          /\ schedPc' = "done"

\* C21: buildExecutionLevels returns for every step list, also one with a
\* dependency cycle, a self-dependency or a dangling dependency: every pass
\* of the loop strictly shrinks `remaining` or pushes the fallback level and
\* leaves the loop, and the call eventually returns.
C21_SchedulingTerminates ==
    /\ [][PassShrinksOrStops]_vars
    /\ <>(schedPc = "done")

\* the call has returned for a plan whose first step is schedulable and
\* whose other two steps wait for each other
C21_Witness ==
    /\ schedPc = "done"
    /\ HasTwoCycle
    /\ fallback
    /\ Len(levels) = 2

-----------------------------------------------------------------------------
(* The StepResults synthesize records *)

\* the texts a failure may leave in StepResult.error
FailureTexts == {ErrorText(err) : err \in Thrown \cup {InvalidKeyError}}

\* C22: every StepResult in synthesize's stepResults has output and error
\* mutually exclusive: the result of a step whose executeStep succeeded has
\* error null, the result of a step whose tool or handler failed has output
\* null and error set to the text of the failure, and no result has both an
\* output and an error.
C22_OutputAndErrorExclusive ==
    \A id \in DOMAIN stepResults :
        LET r == stepResults[id] IN
          /\ ~(r.output # Null /\ r.error # Null)
          /\ stepRun[id].outcome = "ok" => r.error = Null
          /\ stepRun[id].outcome = "failed"
             => /\ r.output = Null
                /\ r.error # Null
                /\ r.error[1] \in FailureTexts

\* a successful step and two failed ones are recorded: one failed with an
\* Error, one with a thrown value that is not an Error
C22_Witness ==
    \E i, j, k \in DOMAIN stepResults :
        /\ stepRun[i].outcome = "ok" /\ stepResults[i].output # Null
        /\ stepRun[j].outcome = "failed"
        /\ stepResults[j].error = Some(<<"message", "Invalid public key input">>)
        /\ stepRun[k].outcome = "failed"
        /\ stepResults[k].error = Some(<<"String", 503>>)

-----------------------------------------------------------------------------
(* Dispatch of the plan steps by synthesize *)

\* the assessWallet calls made for step id
CallsOfStep(id) == {c \in DOMAIN calls : calls[c].stepId = id}

\* the for loop over the levels has ended
LevelsExecuted == synthPc \in {"aggregate", "done", "raised_in_aggregate"}

\* C23: within one synthesize call every plan step is dispatched exactly
\* once, to the ToolExecutor tool or to the built-in handler of its tool
\* name, whether it succeeds or fails: no step is dispatched twice, every
\* step has been dispatched once when the loop over the levels has ended, a
\* recorded result (a failure included) stands for one dispatch, and a
\* lattice_assess step has made one assessWallet call.
C23_EachStepDispatchedOnce ==
    /\ \A id \in DOMAIN dispatched : dispatched[id] <= 1
    /\ LevelsExecuted => \A id \in IdsOf(steps) : dispatched[id] = 1
    /\ \A id \in DOMAIN stepResults : dispatched[id] = 1
    /\ \A id \in DOMAIN dispatched :
          StepWithId(id).toolName = "lattice_assess"
          => Cardinality(CallsOfStep(id)) = dispatched[id]

\* synthesize has returned for a plan of two levels in which a tool step and
\* a lattice_assess step failed and another step succeeded
C23_Witness ==
    /\ synthPc = "done"
    /\ Len(levels) = 2
    /\ \E i, j, k \in DOMAIN stepResults :
          /\ StepWithId(i).toolName = "vault_read"
          /\ stepResults[i].error # Null
          /\ StepWithId(j).toolName = "lattice_assess"
          /\ stepResults[j].error # Null
          /\ stepResults[k].error = Null

-----------------------------------------------------------------------------
(* Lazy expiry of the two caches *)

\* this step is a read of the trust cache, of the score cache
ReadsTrustNow == lastRead'.parity # lastRead.parity /\ lastRead'.cache = "trust"
ReadsScoreNow == lastRead'.parity # lastRead.parity /\ lastRead'.cache = "score"

\* cache without the entry of key
Without(cache, key) == [k \in DOMAIN cache \ {key} |-> cache[k]]

\* what a read of `key` at time t must return and leave, given the cache
\* before it, the value a hit returns, what was returned and the cache after
ReadIsLazy(before, key, t, hitValue, returned, after) ==
    IF key \in DOMAIN before /\ t <= before[key].expiresAt
    THEN returned = Some(hitValue) /\ after = before
    ELSE /\ returned = Null
         /\ after = IF key \in DOMAIN before THEN Without(before, key) ELSE before

\* C24: a read of the trust cache or of the score cache returns the entry of
\* its key if and only if there is one and the time of the read is not later
\* than its expiresAt; a read later than expiresAt returns a miss and removes
\* that entry and no other, a read that hits leaves the whole cache as it
\* was, and an entry leaves a cache only in a read of its own key made later
\* than its expiresAt.
C24_LazyExpiryOnRead ==
    [][/\ ReadsTrustNow
          => ReadIsLazy(trustCache, lastRead'.key, now,
                        IF lastRead'.key \in DOMAIN trustCache
                        THEN trustCache[lastRead'.key].assessment ELSE Null,
                        lastRead'.returned, trustCache')
       /\ ReadsScoreNow
          => ReadIsLazy(sovereignCache, lastRead'.key[1], now,
                        IF lastRead'.key[1] \in DOMAIN sovereignCache
                        THEN sovereignCache[lastRead'.key[1]] ELSE Null,
                        lastRead'.returned, sovereignCache')
       /\ \A k \in DOMAIN trustCache \ DOMAIN trustCache' :
             /\ ReadsTrustNow
             /\ lastRead'.key = k
             /\ now > trustCache[k].expiresAt
       /\ \A w \in DOMAIN sovereignCache \ DOMAIN sovereignCache' :
             /\ ReadsScoreNow
             /\ lastRead'.key = <<w>>
             /\ now > sovereignCache[w].expiresAt]_vars

\* the last read found an expired trust entry and removed it, while another
\* trust entry and a score entry, both past their expiresAt but not read
\* since, are still in their caches
C24_Witness ==
    /\ lastRead.cache = "trust"
    /\ lastRead.sawExpired
    /\ lastRead.returned = Null
    /\ lastRead.key \notin DOMAIN trustCache
    /\ \E k \in DOMAIN trustCache : now > trustCache[k].expiresAt
    /\ \E w \in DOMAIN sovereignCache : now > sovereignCache[w].expiresAt

-----------------------------------------------------------------------------
(* The follow-up plan *)

\* the retained verifications, in mapping order
Retained == MapValues(stepVerifications)

\* the positions of the retained verifications with action omit
OmittedAt == {i \in DOMAIN Retained : Retained[i].action = "omit"}

\* the position in Retained of the k-th omitted verification
OmittedPosition(k) ==
    CHOOSE i \in OmittedAt : Cardinality({j \in OmittedAt : j <= i}) = k

\* verify has returned a result that did not pass
VerificationFailed == verifyPc = "returned" /\ ~verifyResult[1].overallPassed

\* C25: when verification fails, the follow-up plan has one step per retained
\* StepVerification with action omit, in the same order; each step is a
\* lattice_query with maxDepth 6, whose origin is the first element of that
\* verification's path, or the empty text when the path is empty, with
\* requiresVerification true and no dependsOn, and no two steps of the
\* follow-up plan have the same id.
C25_FollowUpPlanShape ==
    VerificationFailed =>
        /\ verifyResult[1].followUpPlan # Null
        /\ LET followUp == verifyResult[1].followUpPlan[1] IN
             /\ Len(followUp) = Cardinality(OmittedAt)
             /\ \A k \in DOMAIN followUp :
                   LET path == Retained[OmittedPosition(k)].path IN
                     /\ followUp[k].toolName = "lattice_query"
                     /\ followUp[k].input.maxDepth = 6
                     /\ followUp[k].input.origin = IF Len(path) = 0 THEN "" ELSE path[1]
                     /\ followUp[k].requiresVerification
                     /\ followUp[k].dependsOn = {}
             /\ \A k, m \in DOMAIN followUp : k # m => followUp[k].id # followUp[m].id

\* verify has returned a follow-up plan of two steps, for two omitted
\* verifications with a kept one between them: one with a path, one without
C25_Witness ==
    /\ VerificationFailed
    /\ Len(Retained) = 3
    /\ OmittedAt = {1, 3}
    /\ Len(Retained[1].path) = 2
    /\ Len(Retained[3].path) = 0
    /\ verifyResult[1].followUpPlan[1][1].input.origin = "O"
    /\ verifyResult[1].followUpPlan[1][2].input.origin = ""

-----------------------------------------------------------------------------
(* The TrustGate calls of verify *)

\* a qualifying step whose StepResult exists and carries no error
QualifiesErrorFree(i) ==
    /\ Qualifies(steps[i])
    /\ steps[i].id \in DOMAIN stepResults
    /\ stepResults[steps[i].id].error = Null

\* the assessWallet calls made for step id with target w
CallsForPair(id, w) ==
    {c \in DOMAIN calls : calls[c].stepId = id /\ calls[c].target = w}

\* verify has ended, by returning or by raising
VerifyEnded == verifyPc \in {"returned", "raised"}

\* every assessWallet call is for a qualifying error-free step and a
\* non-origin identity of its output, and no pair is assessed twice
CallsOnlyForPairs ==
    \A c \in DOMAIN calls :
        /\ calls[c].target # originWallet[1]
        /\ \E i \in DOMAIN steps :
              /\ steps[i].id = calls[c].stepId
              /\ QualifiesErrorFree(i)
              /\ calls[c].target \in NonOriginIdentities(steps[i].id)
        /\ Cardinality(CallsForPair(calls[c].stepId, calls[c].target)) = 1

\* every non-origin identity of the output of a qualifying error-free step
\* has been assessed
EveryPairAssessed ==
    \A i \in DOMAIN steps :
        QualifiesErrorFree(i)
        => \A w \in NonOriginIdentities(steps[i].id) :
              Cardinality(CallsForPair(steps[i].id, w)) = 1

\* C26: in a verify call with a known origin, TrustGate.assessWallet is
\* called exactly once for each pair of a qualifying step with an error-free
\* StepResult and an identity that occurs in its output and is not the
\* origin; it is never called with the origin as target, for a step whose
\* result carries an error, or twice for the same identity of one step.
C26_OneTrustGateCallPerReference ==
    /\ CallsOnlyForPairs
    /\ (VerifyEnded /\ ~NoOrigin) => EveryPairAssessed


\* the position of the first occurrence of identity w in the output of step id
FirstOccurrence(id, w) ==
    LET out == stepResults[id].output[1]
    IN  CHOOSE k \in DOMAIN out : out[k] = w /\ \A m \in 1..(k - 1) : out[m] # w

\* the non-origin identity of the output of step id whose first occurrence
\* comes last
LastSurfaced(id) ==
    CHOOSE w \in NonOriginIdentities(id) :
        \A x \in NonOriginIdentities(id) : FirstOccurrence(id, x) <= FirstOccurrence(id, w)

\* the keys of stepVerifications, in mapping order
RetainedKeys == [k \in DOMAIN stepVerifications |-> stepVerifications[k].key]

\* C27: stepVerifications holds at most one StepVerification per step id; its
\* keys are ids of qualifying steps with an error-free StepResult whose
\* output holds at least one identity other than the origin; and in the map
\* verify returns, the entry of a step is the assessment of the non-origin
\* identity of its output whose first occurrence comes last.
C27_LastAssessedIsRetained ==
    /\ \A k, m \in DOMAIN RetainedKeys : k # m => RetainedKeys[k] # RetainedKeys[m]
    /\ \A k \in DOMAIN RetainedKeys :
          \E i \in DOMAIN steps :
              /\ steps[i].id = RetainedKeys[k]
              /\ QualifiesErrorFree(i)
              /\ NonOriginIdentities(steps[i].id) # {}
    /\ verifyPc = "returned"
       => \A k \in DOMAIN RetainedKeys :
             LET id == RetainedKeys[k] IN
               \E c \in CallsForPair(id, LastSurfaced(id)) :
                   /\ calls[c].state = "returned"
                   /\ stepVerifications[k].value = calls[c].result[1]
                   /\ verifyResult[1].stepVerifications[k] = stepVerifications[k]

\* verify has returned for a step whose output names A, then B, then A
\* again: A and B were assessed differently and B's assessment is retained
C27_Witness ==
    /\ verifyPc = "returned"
    /\ \E k \in DOMAIN RetainedKeys :
          LET id == RetainedKeys[k] IN
            /\ stepResults[id].output = Some(<<"A", "w", "B", "A">>)
            /\ \E a \in CallsForPair(id, "A"), b \in CallsForPair(id, "B") :
                  /\ a < b
                  /\ calls[a].state = "returned"
                  /\ calls[a].result[1].action = "omit"
                  /\ calls[b].result[1].action = "present"
                  /\ stepVerifications[k].value = calls[b].result[1]


\* some TrustGate assessment made during the verify call resulted in omit
SomeAssessmentOmits ==
    \E c \in DOMAIN calls :
        calls[c].state = "returned" /\ calls[c].result[1].action = "omit"

\* C28: in the VerificationResult verify returns, overallPassed is false
\* exactly when some TrustGate assessment made during the call resulted in
\* omit, and then a follow-up plan is returned, also when the step of the
\* omitted identity surfaced another identity that was assessed afterwards
\* with another action.
C28_AnyOmitFailsVerification ==
    verifyPc = "returned" =>
        /\ (verifyResult[1].overallPassed = FALSE) <=> SomeAssessmentOmits
        /\ SomeAssessmentOmits => verifyResult[1].followUpPlan # Null


\* every retained StepVerification has High confidence (or none was retained)
AllRetainedHigh == \A k \in DOMAIN Retained : Retained[k].confidence = "High"

\* C29: when every retained StepVerification has High confidence, or none
\* was retained, verify returns an empty caveats list without a Reasoner
\* call; the Reasoner is asked for caveats, once, only when some retained
\* verification has a confidence other than High.
C29_ReasonerOnlyForNonHigh ==
    /\ (verifyPc = "returned" /\ AllRetainedHigh)
       => /\ verifyResult[1].caveats = Some(<<>>)
          /\ reasonerCalls = 0
    /\ reasonerCalls > 0 => (reasonerCalls = 1 /\ ~AllRetainedHigh)

\* verify has returned two retained verifications, both High
C29_Witness ==
    /\ verifyPc = "returned"
    /\ Len(Retained) = 2
    /\ AllRetainedHigh
    /\ reasonerCalls = 0
    /\ verifyResult[1].caveats = Some(<<>>)


\* the Reasoner answered the caveat request with a text that holds no JSON
\* object, or with braces that do not parse
UnparsableReply == caveatReply \in {Some("not_json"), Some("no_braces")}

FallbackReturned ==
    UnparsableReply =>
        /\ verifyPc = "returned"
        /\ verifyResult # Null
        /\ verifyResult[1].caveats = Some(FallbackCaveats(Retained))

CaveatsIsAList ==
    (verifyPc = "returned" /\ verifyResult # Null) =>
        verifyResult[1].caveats # Undefined

\* C30: when the Reasoner's caveat reply holds no JSON object or a malformed
\* one, verify returns (it does not raise) with, as caveats, the caveat texts
\* of the retained StepVerifications that have one, in mapping order; and
\* whatever the reply, the caveats of a returned VerificationResult are a list.
C30_UnparsableReplyFallsBack ==
    /\ FallbackReturned
    /\ CaveatsIsAList


-----------------------------------------------------------------------------
(* Claims about the history kept in SessionMemory *)

\* s is a contiguous suffix of full, in the same order
IsSuffix(s, full) ==
    /\ Len(s) <= Len(full)
    /\ s = SubSeq(full, Len(full) - Len(s) + 1, Len(full))

\* the histories the turn can have built before any trimming: the user
\* message appended to what run found, and the stored text after it
UntrimmedHistories ==
    LET asked == addUserMessage(messagesBefore, UserMessage)
    IN  {asked} \cup
        (IF runOutput = Null THEN {}
         ELSE {addAssistantMessage(asked, runOutput[1].content)})

HistoryBounded == Len(messages) <= MAX_HISTORY_MESSAGES

HistoryStartsWithUser == Len(messages) > 0 => messages[1].role = "user"

HistoryIsSuffix == \E full \in UntrimmedHistories : IsSuffix(messages, full)

\* C31: when run returns, memory.messages holds at most MAX_HISTORY_MESSAGES
\* messages, its first message (if any) is a user message, and the messages
\* are a contiguous suffix of the untrimmed history in the original order.
C31_HistoryBoundedAtReturn ==
    agentPc = "returned" =>
        /\ HistoryBounded
        /\ HistoryStartsWithUser
        /\ HistoryIsSuffix


-----------------------------------------------------------------------------
(* Claims about the plans of the Planner *)

UniqueStepIds ==
    \A i, j \in DOMAIN steps : i # j => steps[i].id # steps[j].id

\* every dependency names a step of strictly smaller index that itself
\* depends on nothing
DependsOnEarlierRoots ==
    \A i \in DOMAIN steps : \A dep \in steps[i].dependsOn :
        \E j \in 1..(i - 1) :
            /\ steps[j].id = dep
            /\ steps[j].dependsOn = {}

\* C32: every plan Planner.plan produces has unique step ids and dependencies
\* that name only steps of strictly smaller index which themselves have an
\* empty dependsOn; buildExecutionLevels gives such a plan at most two levels
\* and never takes the fallback branch.
C32_PlannerPlansNeedTwoLevels ==
    planReply # Null =>
        /\ steps = PlanOf(planReply[1]).steps
        /\ UniqueStepIds
        /\ DependsOnEarlierRoots
        /\ Len(levels) <= 2
        /\ ~fallback

\* the levels of a plan of MaxPlanTools steps whose last step depends on the
\* two before it
C32_Witness ==
    /\ planReply # Null
    /\ schedPc = "done"
    /\ Len(steps) = MaxPlanTools
    /\ Len(levels) = 2
    /\ Cardinality(steps[Len(steps)].dependsOn) = 2
    /\ Len(levels[1]) = 2


-----------------------------------------------------------------------------
(* Claims about what becomes of a follow-up plan *)

ToolNamesOf(stepList) == [i \in DOMAIN stepList |-> stepList[i].toolName]

\* synthesize, verify or execute of the current iteration is under way
IterationUnderWay == agentPc \in {"synthesizing", "verifying", "executing"}

\* the steps the Scheduler and ToolExecutor work on are those of the plan the
\* Planning call of this iteration returned
RunsThePlannedSteps ==
    IterationUnderWay =>
        /\ planReply # Null
        /\ ToolNamesOf(steps) = planReply[1].tools
        /\ steps = PlanOf(planReply[1]).steps
        /\ DOMAIN stepRun = IdsOf(steps)
        /\ DOMAIN dispatched = IdsOf(steps)

\* execute signals follow_up and run handles that output
HandlesFollowUp ==
    /\ agentPc = "verifying"
    /\ agentPc' # "verifying"
    /\ verifyPc = "returned"
    /\ verifyResult[1].caveats # Undefined
    /\ SignalsFollowUp(verifyResult[1])

\* run takes nothing from the follow_up output: it hands no step to the
\* Scheduler or ToolExecutor, and makes the next Planning call or, at the
\* iteration bound, returns the degraded output
FollowUpIsDiscarded ==
    HandlesFollowUp =>
        /\ UNCHANGED <<schedVars, synthVars, planReply>>
        /\ \/ /\ agentPc' = "planning"
              /\ iterations' = iterations + 1
              /\ runOutput' = runOutput
           \/ /\ agentPc' = "returned"
              /\ iterations = maxIterations
              /\ runOutput' = Some(AgentOutput("response", DegradedMessage, <<>>))

\* the Scheduler is started only when a Planning call has returned a plan
OnlyPlanningStartsScheduler ==
    (schedPc' = "entry" /\ schedPc # "entry") =>
        /\ agentPc = "planning"
        /\ agentPc' = "synthesizing"
        /\ planReply' # Null
        /\ ToolNamesOf(steps') = planReply'[1].tools

-----------------------------------------------------------------------------
(* Claims about the trust annotations of the returned output *)

\* the StepVerifications the last verify call returned, in mapping order
ReturnedRetained == MapValues(verifyResult[1].stepVerifications)

\* run returned after a Planning call: the direct response
ReturnedDirectResponse ==
    agentPc = "returned" /\ phases[Len(phases)] = "Planning"

\* run returned after an Executing phase
ReturnedAfterExecuting ==
    agentPc = "returned" /\ phases[Len(phases)] = "Executing"

\* annotation i of the output is that of the i-th retained StepVerification,
\* and that verification does not have the action omit
AnnotatesRetained(annotations) ==
    /\ Len(annotations) = Len(ReturnedRetained)
    /\ \A i \in DOMAIN annotations :
          /\ annotations[i].source = ReturnedRetained[i].stepId
          /\ annotations[i].confidence = ReturnedRetained[i].confidence
          /\ annotations[i].caveat = ReturnedRetained[i].caveat
          /\ ReturnedRetained[i].action # "omit"

\* C34: an output run returns carries no trust annotation of a
\* StepVerification with action omit. After an Executing phase run returns
\* a response or action of that phase only if the verification passed, and
\* that output carries exactly one annotation per retained StepVerification;
\* otherwise it returns the exhaustion output. The direct-response and the
\* exhaustion output carry no annotations.
C34_NoAnnotationOfOmitted ==
    /\ ReturnedDirectResponse => runOutput[1].trustAnnotations = <<>>
    /\ ReturnedAfterExecuting =>
          IF verifyResult[1].overallPassed
          THEN /\ runOutput[1].type \in {"response", "action"}
               /\ runOutput[1].content \in ExecutorReplies
               /\ AnnotatesRetained(runOutput[1].trustAnnotations)
          ELSE runOutput[1] = AgentOutput("response", DegradedMessage, <<>>)

\* run has returned an action whose annotations include one with a caveat
C34_Witness ==
    /\ ReturnedAfterExecuting
    /\ verifyResult[1].overallPassed
    /\ runOutput[1].type = "action"
    /\ Len(runOutput[1].trustAnnotations) >= 1
    /\ \E i \in DOMAIN runOutput[1].trustAnnotations :
          runOutput[1].trustAnnotations[i].caveat # NoCaveat


-----------------------------------------------------------------------------
(* Claims about a turn whose iterations repeat *)

\* the indexes in `calls` of the assessWallet calls verify made in round k
VerifyCallsOf(k) == (rounds[k].callsBefore + 1)..rounds[k].callsAfter

\* the verify call of round k returned
RoundReturned(k) == rounds[k].verification # Null

\* the verify call of round k is no longer under way
RoundOver(k) == k < Len(rounds) \/ agentPc # "verifying"

LaterRounds == 2..Len(rounds)

FirstVerificationFailed ==
    /\ Len(rounds) >= 1
    /\ RoundReturned(1)
    /\ ~rounds[1].verification[1].overallPassed

\* every Planning call of the turn returned, and returned the same plan
SamePlanEveryTime ==
    /\ \A k \in LaterRounds : rounds[k].reply = rounds[1].reply
    /\ planReply = rounds[1].reply
    /\ ~(agentPc = "raised" /\ phases[Len(phases)] = "Planning")

\* every tool call of the turn returned the same output: the step results
\* are those of the first iteration
SameOutputsEveryTime ==
    /\ \A k \in LaterRounds : rounds[k].results = rounds[1].results
    /\ (agentPc = "raised" /\ phases[Len(phases)] = "Synthesizing")
          => stepResults = rounds[1].results

\* the keys of the verdicts the first verification used
FirstVerdictKeys == {calls[i].key : i \in VerifyCallsOf(1)}

\* round k ran before any of those verdicts, as cached when the first
\* verification returned, expired
WithinTTL(k) ==
    \A key \in FirstVerdictKeys :
        /\ key \in DOMAIN rounds[1].cache
        /\ ~Expired(rounds[k].endedAt, rounds[1].cache[key])

ReusesVerdicts(k) ==
    \A i \in VerifyCallsOf(k) : calls[i].hit /\ calls[i].invoked = 0

FailsTheSameWay(k) ==
    /\ RoundReturned(k)
    /\ rounds[k].verification[1].overallPassed = FALSE
    /\ rounds[k].verification[1].stepVerifications =
          rounds[1].verification[1].stepVerifications
    /\ rounds[k].verification[1].followUpPlan = rounds[1].verification[1].followUpPlan

TurnEnded == agentPc \in {"returned", "raised"}

EndsByExhaustion ==
    /\ agentPc = "returned"
    /\ runOutput = Some(AgentOutput("response", DegradedMessage, <<>>))
    /\ iterations = maxIterations
    /\ PlanningEntries = maxIterations

RepeatingTurn ==
    /\ FirstVerificationFailed
    /\ SamePlanEveryTime
    /\ SameOutputsEveryTime

\* C35: in a turn whose Planning calls all return the same plan and whose
\* tool calls all return the same output, and whose first verification
\* failed, every later iteration that runs within the cache TTL takes its
\* verdicts from the cache without a TrustOracle call and fails verification
\* in the same way, and the turn ends by exhaustion after maxIterations
\* Planning calls.
C35_CachedOmitRepeatsUntilExhaustion ==
    RepeatingTurn =>
        /\ \A k \in LaterRounds :
              WithinTTL(k) =>
                  /\ ReusesVerdicts(k)
                  /\ RoundOver(k) => FailsTheSameWay(k)
        /\ (TurnEnded /\ \A k \in LaterRounds : WithinTTL(k)) => EndsByExhaustion

====
